---- MODULE Spec2Model ----
(***************************************************************************)
(* A model of libsophistry-jpeg's streaming shrink (jpegshrink.c) on top   *)
(* of the scanline reader and writer of sophistry_jpeg.c.                  *)
(*                                                                         *)
(* Buffers are sequences; the C index i is the sequence index i + 1.       *)
(* libjpeg itself is the environment: the variable jpeg holds what the     *)
(* decoder will report (header fields, scanlines, the point where it       *)
(* raises an error); outRows holds what the encoder was handed.            *)
(***************************************************************************)
EXTENDS Integers, Sequences, FiniteSets, TLC

(* ---------- program constants ---------- *)

SPH_JPEG_ERR_OK == 0
SPH_JPEG_ERR_LIBJ == 1
SPH_JPEG_ERR_IDIM == 2
SPH_JPEG_ERR_CCNT == 3
SPH_JPEG_ERR_READ == 4
SPH_JPEG_MAXDIM == 32000
INT32_MAX == 2147483647
SPH_JPEG_MINQ == 25
SPH_JPEG_MAXQ == 90
JPEGSHRINK_MAXSHRINK == 16
ERR_CONSTRAINTS == -1
DEFAULT_Q_VAL == 90
UINT16_MOD == 65536

(* ---------- bounds of the model ---------- *)

MaxW == 5
MaxH == 4
MaxS == 3
MaxLen == 3

(* ---------- inputs ---------- *)

(* Sample c of pixel x of scanline y of a synthetic image: an affine       *)
(* pattern reduced to a byte.                                              *)
Pixel(p, y, x, c) == (p.base + p.kx * x + p.ky * y + p.kc * c) % 256

(* The scanlines the decoder will deliver, top to bottom, each holding     *)
(* w * ch interleaved samples.                                             *)
MakeImage(p, w, h, ch) ==
  [yy \in 1..h |->
     [i \in 1..(w * ch) |-> Pixel(p, yy - 1, (i - 1) \div ch, (i - 1) % ch)]]

(* grid: the 10,20,..,160 grid of a 4x4 image; flat: saturated samples;    *)
(* ramp: sums that do not divide evenly; mixed: values that wrap.          *)
Patterns ==
  { [base |-> 10,  kx |-> 10, ky |-> 40, kc |-> 0],
    [base |-> 255, kx |-> 0,  ky |-> 0,  kc |-> 0],
    [base |-> 0,   kx |-> 1,  ky |-> 2,  kc |-> 5],
    [base |-> 3,   kx |-> 97, ky |-> 61, kc |-> 29] }

(* What libjpeg reports for one input stream.  libj_err: the header or the *)
(* start of decompression raises an error.  fail_at = k in 1..height: the  *)
(* k-th jpeg_read_scanlines raises an error; fail_at = height + 1:         *)
(* jpeg_finish_decompress raises it; 0: no error.                          *)
GoodStreams ==
  { [libj_err |-> FALSE, output_width |-> w, output_height |-> h,
     output_components |-> ch, fail_at |-> f, rows |-> MakeImage(p, w, h, ch)] :
      w \in 1..MaxW, h \in 1..MaxH, ch \in {1, 3},
      f \in 0..(MaxH + 1), p \in Patterns }

ValidStreams == { j \in GoodStreams : j.fail_at <= j.output_height + 1 }

BadStreams ==
  { [libj_err |-> e, output_width |-> w, output_height |-> h,
     output_components |-> ch, fail_at |-> 0, rows |-> << >>] :
      e \in BOOLEAN, w \in {0, 2, SPH_JPEG_MAXDIM + 1},
      h \in {0, 2, SPH_JPEG_MAXDIM + 1}, ch \in {1, 3, 4} }

OpenFailStreams ==
  { j \in BadStreams :
      \/ j.libj_err
      \/ j.output_width # 2
      \/ j.output_height # 2
      \/ j.output_components = 4 }

(* The 8x8 RGB image reduced to one pixel. *)
ScenarioStreams ==
  { [libj_err |-> FALSE, output_width |-> 8, output_height |-> 8,
     output_components |-> 3, fail_at |-> 0, rows |-> MakeImage(p, 8, 8, 3)] :
      p \in Patterns }

(* A 16x16 grayscale image reduced to one pixel by the largest scaling     *)
(* value.                                                                  *)
MaxShrinkStreams ==
  { [libj_err |-> FALSE, output_width |-> 16, output_height |-> 16,
     output_components |-> 1, fail_at |-> 0, rows |-> MakeImage(p, 16, 16, 1)] :
      p \in Patterns }

(* Headers at the upper end of the accepted dimensions.  Their scanlines   *)
(* are not represented: these streams are only used with constraints that  *)
(* reject them before any scanline is read.                                *)
LargeStreams ==
  { [libj_err |-> FALSE, output_width |-> w, output_height |-> h,
     output_components |-> ch, fail_at |-> 0, rows |-> << >>] :
      w \in {26755, SPH_JPEG_MAXDIM}, h \in {26755, SPH_JPEG_MAXDIM},
      ch \in {1, 3} }

(* Headers whose pixel count does not fit 32 bits. *)
HugeStreams ==
  { [libj_err |-> FALSE, output_width |-> 65536, output_height |-> 32768,
     output_components |-> ch, fail_at |-> 0, rows |-> << >>] :
      ch \in {1, 3} }

(* The header of the largest accepted image, 32000 x 32000 grayscale, in a *)
(* stream whose first scanline fails to decode.                            *)
BoundaryStreams ==
  { [libj_err |-> FALSE, output_width |-> SPH_JPEG_MAXDIM,
     output_height |-> SPH_JPEG_MAXDIM, output_components |-> 1,
     fail_at |-> 1, rows |-> << >>] }

BoundVals == {-1, 0, 1, 3}

BoundFields == {"max_long", "max_short", "max_width", "max_height", "max_pixels"}

(* A bounds argument: NULL, or a structure with at most one bound present, *)
(* or one with the same value in all five fields.  The fields of the NULL  *)
(* argument do not exist; they are given the value 0 here, which would     *)
(* reject every image if it were read.                                     *)
NullBounds ==
  [isNull |-> TRUE, max_long |-> 0, max_short |-> 0, max_width |-> 0,
   max_height |-> 0, max_pixels |-> 0]

BoundsStructs ==
  { b \in [isNull : {FALSE}, max_long : BoundVals, max_short : BoundVals,
           max_width : BoundVals, max_height : BoundVals,
           max_pixels : BoundVals] :
      \/ Cardinality({f \in BoundFields : b[f] >= 0}) <= 1
      \/ \A f \in BoundFields : b[f] = b.max_long }

BoundsArgs == {NullBounds} \cup BoundsStructs

(* Structures bounding the pixel count alone, at and next to the pixel     *)
(* counts of the largest image whole and halved, and at the largest        *)
(* int32_t.                                                                *)
PixelBoundsStructs ==
  { [isNull |-> FALSE, max_long |-> -1, max_short |-> -1, max_width |-> -1,
     max_height |-> -1, max_pixels |-> n] :
      n \in {255999999, 256000000, 1023999999, 1024000000, INT32_MAX} }

(* Structures whose absent bounds hold a negative value other than -1: -2  *)
(* or the least int32_t, with at most one bound present.                   *)
NegativeBoundsStructs ==
  { b \in [isNull : {FALSE}, max_long : BoundVals \cup {-2, -INT32_MAX - 1},
           max_short : BoundVals \cup {-2, -INT32_MAX - 1},
           max_width : BoundVals \cup {-2, -INT32_MAX - 1},
           max_height : BoundVals \cup {-2, -INT32_MAX - 1},
           max_pixels : BoundVals \cup {-2, -INT32_MAX - 1}] :
      /\ Cardinality({f \in BoundFields : b[f] >= 0}) <= 1
      /\ \E n \in {-2, -INT32_MAX - 1} :
           \A f \in BoundFields : b[f] < 0 => b[f] = n }

Qualities == {10, 95}

(* Every quality on the scale of jpeg_set_quality, requested for a 2x2     *)
(* image.                                                                  *)
QualityRequests == 0..100

QualityStreams ==
  { [libj_err |-> FALSE, output_width |-> 2, output_height |-> 2,
     output_components |-> ch, fail_at |-> 0,
     rows |-> MakeImage([base |-> 10, kx |-> 10, ky |-> 40, kc |-> 0],
                        2, 2, ch)] :
      ch \in {1, 3} }

(* A string is the sequence of its characters before the terminating NUL, *)
(* each a one-character string; ord gives the character's code.           *)
Chr == <<"0", "1", "2", "3", "4", "5", "6", "7", "8", "9">>

ord ==
  [c \in {" ", "+", "-", "/", ":", "x"} \cup {Chr[i] : i \in 1..10} |->
     CASE c = " " -> 32
       [] c = "+" -> 43
       [] c = "-" -> 45
       [] c = "/" -> 47
       [] c = ":" -> 58
       [] c = "x" -> 120
       [] OTHER -> 47 + (CHOOSE i \in 1..10 : Chr[i] = c)]

(* The decimal string with the given digits. *)
Decimal(ds) == [i \in 1..Len(ds) |-> Chr[ds[i] + 1]]

(* The strings parseInt is applied to: every string of at most MaxLen      *)
(* characters over a sign, digits and the characters next to the digits,   *)
(* and decimal strings at and around the 32-bit limits.                    *)
ParseAlphabet == {"+", "-", "0", "1", "9", "/", ":", "x"}

LimitStrings ==
  LET m == <<2, 1, 4, 7, 4, 8, 3, 6, 4>>
      u == { Decimal(m), Decimal(m \o <<6>>), Decimal(m \o <<7>>),
             Decimal(m \o <<8>>), Decimal(m \o <<9>>),
             Decimal(<<2, 1, 4, 7, 4, 8, 3, 6, 5, 0>>),
             Decimal(<<2, 1, 4, 7, 4, 8, 3, 6, 3, 9>>),
             Decimal(m \o <<7, 0>>),
             Decimal(<<0, 0, 0>> \o m \o <<7>>),
             Decimal(<<0, 0, 0>> \o m \o <<8>>),
             Decimal(<<9, 9, 9, 9, 9, 9, 9, 9, 9, 9, 9>>),
             Decimal(m \o <<7>>) \o <<"x">>,
             Decimal(<<1, 6>>), Decimal(<<1, 0, 0>>) }
  IN u \cup { <<"-">> \o t : t \in u } \cup { <<"+">> \o t : t \in u }

ParseStrings ==
  UNION { [1..n -> ParseAlphabet] : n \in 0..MaxLen } \cup LimitStrings

(* The values the output variable holds before the call. *)
PriorValues == {0, DEFAULT_Q_VAL, -5}

(* The arguments on the command line of jpeg_reduce. *)
ToolArgs ==
  { << >>, <<"x">>, <<"-">>, <<"2", "x">>, <<"-", "1">>, <<"+", "2">>,
    Decimal(<<0>>), Decimal(<<1>>), Decimal(<<2>>), Decimal(<<1, 6>>),
    Decimal(<<1, 7>>), Decimal(<<9, 0>>), Decimal(<<1, 0, 0>>),
    Decimal(<<1, 0, 1>>),
    Decimal(<<2, 1, 4, 7, 4, 8, 3, 6, 4, 8>>) }

ProgName == <<"j", "p", "e", "g", "_", "r", "e", "d", "u", "c", "e">>

(* The command lines: argv[0] is the first element.  With no extra        *)
(* parameter, one, two, and one case of three.                             *)
CommandLines ==
  { << >>, <<ProgName>> }
    \cup { <<ProgName, a>> : a \in ToolArgs }
    \cup { <<ProgName, a, b>> : a \in ToolArgs, b \in ToolArgs }
    \cup { <<ProgName, Decimal(<<2>>), Decimal(<<9, 0>>), Decimal(<<1>>)>> }

(* The streams on the standard input of the tool. *)
ToolStreams ==
  QualityStreams
    \cup { [j EXCEPT !.fail_at = 2] : j \in QualityStreams }
    \cup OpenFailStreams

(* ---------- state ---------- *)

VARIABLES
  jpeg,        \* the input stream as libjpeg decodes it
  original,    \* the scanlines of the image an earlier shrink started from
  sval,        \* argument: scaling value
  q,           \* argument: quality
  pBounds,     \* argument: constraints or NULL
  pc,          \* position inside jpegshrink
  status,      \* jpegshrink local
  retval,      \* jpegshrink local
  in_width, in_height, chcount,
  out_width, out_height, out_samples, pad_height, pad_count,
  y,
  pr,          \* 1 when the reader pointer is set, 0 when NULL
  pw,          \* 1 when the writer pointer is set, 0 when NULL
  reader,      \* the SPH_JPEG_READER structure
  writer,      \* the SPH_JPEG_WRITER structure
  pInScan, pAcc, pOutScan,
  outRows,     \* scanlines handed to jpeg_write_scanlines, in order
  inRows,      \* scanlines jpeg_read_scanlines delivered, in order
  calls,       \* the reader, writer and stage calls made so far, in order
  argv,        \* the command line of the tool; C's argv[i] is argv[i + 1]
  rval,        \* main local: reduction value
  qval,        \* main local: quality value
  exit_code    \* the exit status of the process, -1 while it has not exited

args == <<jpeg, original, sval, q, pBounds, argv, rval, qval, exit_code>>
dims == <<in_width, in_height, chcount, out_width, out_height,
          out_samples, pad_height, pad_count>>
bufs == <<pInScan, pAcc, pOutScan>>
objs == <<pr, pw, reader, writer, outRows, inRows>>
vars == <<args, pc, status, retval, dims, y, bufs, objs, calls>>

(* jpegshrink called by a client and not from the tool: no command line. *)
NoCommand ==
  /\ argv = << >>
  /\ rval = 0
  /\ qval = DEFAULT_Q_VAL
  /\ exit_code = -1

NoReader ==
  [width |-> 0, height |-> 0, readcount |-> 0, chcount |-> 0,
   status |-> SPH_JPEG_ERR_OK, output_scanline |-> 0, finished |-> 0,
   freed |-> 0]

NoWriter ==
  [width |-> 0, height |-> 0, written |-> 0, chcount |-> 0, quality |-> 0,
   finished |-> 0, freed |-> 0]

Init ==
  /\ \/ /\ \/ /\ jpeg \in ValidStreams \cup OpenFailStreams \cup HugeStreams
              /\ sval \in 1..MaxS
              /\ pBounds \in BoundsArgs
           \/ /\ jpeg \in ScenarioStreams /\ sval = 8
              /\ pBounds \in BoundsArgs
           \/ /\ jpeg \in MaxShrinkStreams /\ sval = JPEGSHRINK_MAXSHRINK
              /\ pBounds \in BoundsArgs
           \/ /\ jpeg \in LargeStreams
              /\ sval \in 1..MaxS
              /\ pBounds \in {b \in BoundsStructs :
                                 \E f \in BoundFields : b[f] >= 0}
        /\ q \in Qualities
     \/ /\ jpeg \in QualityStreams
        /\ sval \in 1..2
        /\ pBounds = NullBounds
        /\ q \in QualityRequests
     \/ /\ jpeg \in QualityStreams
        /\ sval \in 1..2
        /\ pBounds \in NegativeBoundsStructs
        /\ q \in Qualities
     \/ /\ jpeg \in BoundaryStreams
        /\ sval \in 1..2
        /\ pBounds \in PixelBoundsStructs
        /\ q \in Qualities
  /\ NoCommand
  /\ original = << >>
  /\ pc = "open"
  /\ status = 1
  /\ retval = SPH_JPEG_ERR_OK
  /\ in_width = 0 /\ in_height = 0 /\ chcount = 0
  /\ out_width = 0 /\ out_height = 0 /\ out_samples = 0
  /\ pad_height = 0 /\ pad_count = 0
  /\ y = 0
  /\ pr = 0 /\ pw = 0
  /\ reader = NoReader
  /\ writer = NoWriter
  /\ pInScan = << >> /\ pAcc = << >> /\ pOutScan = << >>
  /\ outRows = << >>
  /\ inRows = << >>
  /\ calls = << >>

(* ---------- sph_jpeg_error_exit ---------- *)

(* The error handler installed in the reader takes cinfo itself, and not   *)
(* cinfo->err, for the SPH_JPEG_ERRMAN structure, so the jump buffer it    *)
(* hands to longjmp is a range of bytes of the decompression structure     *)
(* that no setjmp has filled.  The behaviour is undefined; what the build  *)
(* does is end the process by a signal.  The call in which libjpeg raised  *)
(* the error does not return: Killed stands for its result.                *)
Killed == [killed |-> TRUE]

(* The result of a call that did not return; with it come the structures   *)
(* the call had changed when the process ended.                            *)
IsKilled(v) == "killed" \in DOMAIN v

(* ---------- sph_jpeg_reader_new ---------- *)

(* sph_jpeg_reader_new without the upper limit on the dimensions. *)
sph_jpeg_reader_new_nolimit(j) ==
  LET dimBad == j.output_width < 1 \/ j.output_height < 1
      chBad == j.output_components # 1 /\ j.output_components # 3
      st == IF dimBad THEN SPH_JPEG_ERR_IDIM
            ELSE IF chBad THEN SPH_JPEG_ERR_CCNT
            ELSE SPH_JPEG_ERR_OK
      ok == st = SPH_JPEG_ERR_OK
  IN IF j.libj_err THEN Killed
     ELSE [width |-> IF ok THEN j.output_width ELSE 1,
           height |-> IF ok THEN j.output_height ELSE 1,
           readcount |-> 0,
           chcount |-> IF ok THEN j.output_components ELSE 1,
           status |-> st,
           output_scanline |-> 0,
           finished |-> 0,
           freed |-> 0]

(* The reader structure sph_jpeg_reader_new returns for stream j, when it  *)
(* returns: an error raised by libjpeg while the header is read or the     *)
(* decompression started goes to sph_jpeg_error_exit.                      *)
sph_jpeg_reader_new(j) ==
  LET dimBad == \/ j.output_width < 1 \/ j.output_width > SPH_JPEG_MAXDIM
                \/ j.output_height < 1 \/ j.output_height > SPH_JPEG_MAXDIM
      chBad == j.output_components # 1 /\ j.output_components # 3
      st == IF dimBad THEN SPH_JPEG_ERR_IDIM
            ELSE IF chBad THEN SPH_JPEG_ERR_CCNT
            ELSE SPH_JPEG_ERR_OK
      ok == st = SPH_JPEG_ERR_OK
  IN IF j.libj_err THEN Killed
     ELSE [width |-> IF ok THEN j.output_width ELSE 1,
           height |-> IF ok THEN j.output_height ELSE 1,
           readcount |-> 0,
           chcount |-> IF ok THEN j.output_components ELSE 1,
           status |-> st,
           output_scanline |-> 0,
           finished |-> 0,
           freed |-> 0]

(* Where jpegshrink continues after opening the reader: every later stage  *)
(* is guarded by the local status, cleared when the reader reports an      *)
(* error.                                                                  *)
after_open(ok) == IF ok THEN "plan" ELSE "exit"

(* jpegshrink: open the input, read status and descriptor. *)
ReaderNew ==
  /\ pc = "open"
  /\ LET r == sph_jpeg_reader_new(jpeg)
         ok == r.status = SPH_JPEG_ERR_OK
     IN IF IsKilled(r)
        THEN /\ pc' = "crash"
             /\ calls' = Append(calls, "reader_new")
             /\ UNCHANGED <<reader, pr, status, in_width, in_height, chcount>>
        ELSE /\ reader' = r
             /\ pr' = 1
             /\ status' = IF ok THEN 1 ELSE 0
             /\ in_width' = IF ok THEN r.width ELSE in_width
             /\ in_height' = IF ok THEN r.height ELSE in_height
             /\ chcount' = IF ok THEN r.chcount ELSE chcount
             /\ calls' = calls \o << "reader_new", "reader_status" >>
             /\ pc' = after_open(ok)
  /\ UNCHANGED <<args, retval, out_width, out_height, out_samples,
                 pad_height, pad_count, y, bufs, pw, writer, outRows, inRows>>

(* ---------- jpegshrink: output dimensions and constraints ---------- *)

(* out_dim incrementing the quotient whether or not there is a remainder. *)
out_dim_always_pad(in_dim, s) ==
  IF s <= 1 THEN in_dim ELSE (in_dim \div s) + 1

(* out_dim without the increment for a remainder. *)
out_dim_floor(in_dim, s) ==
  IF s <= 1 THEN in_dim ELSE in_dim \div s

(* One output dimension from an input dimension and the scaling value. *)
out_dim(in_dim, s) ==
  IF s <= 1 THEN in_dim
  ELSE (in_dim \div s) + (IF (in_dim % s) # 0 THEN 1 ELSE 0)

(* check_bounds comparing the pixel count without testing that the bound   *)
(* is present.                                                             *)
check_bounds_nopresence(b, ow, oh) ==
  LET long_dim == IF oh > ow THEN oh ELSE ow
      short_dim == IF oh > ow THEN ow ELSE oh
      pix_count == ow * oh
  IN IF \/ (b.max_long >= 0 /\ long_dim > b.max_long)
        \/ (b.max_short >= 0 /\ short_dim > b.max_short)
        \/ (b.max_width >= 0 /\ ow > b.max_width)
        \/ (b.max_height >= 0 /\ oh > b.max_height)
        \/ pix_count > b.max_pixels
     THEN 0 ELSE 1

(* check_bounds computing the pixel count in 16 bits. *)
check_bounds_narrow(b, ow, oh) ==
  LET long_dim == IF oh > ow THEN oh ELSE ow
      short_dim == IF oh > ow THEN ow ELSE oh
      pix_count == (ow * oh) % UINT16_MOD
  IN IF \/ (b.max_long >= 0 /\ long_dim > b.max_long)
        \/ (b.max_short >= 0 /\ short_dim > b.max_short)
        \/ (b.max_width >= 0 /\ ow > b.max_width)
        \/ (b.max_height >= 0 /\ oh > b.max_height)
        \/ (b.max_pixels >= 0 /\ pix_count > b.max_pixels)
     THEN 0 ELSE 1

(* check_bounds taking only -1 as the mark of an absent bound. *)
check_bounds_sentinel(b, ow, oh) ==
  LET long_dim == IF oh > ow THEN oh ELSE ow
      short_dim == IF oh > ow THEN ow ELSE oh
      pix_count == ow * oh
  IN IF \/ (b.max_long # -1 /\ long_dim > b.max_long)
        \/ (b.max_short # -1 /\ short_dim > b.max_short)
        \/ (b.max_width # -1 /\ ow > b.max_width)
        \/ (b.max_height # -1 /\ oh > b.max_height)
        \/ (b.max_pixels # -1 /\ pix_count > b.max_pixels)
     THEN 0 ELSE 1

(* check_bounds with the long and the short dimension exchanged. *)
check_bounds_swapped(b, ow, oh) ==
  LET long_dim == IF oh > ow THEN ow ELSE oh
      short_dim == IF oh > ow THEN oh ELSE ow
      pix_count == ow * oh
  IN IF \/ (b.max_long >= 0 /\ long_dim > b.max_long)
        \/ (b.max_short >= 0 /\ short_dim > b.max_short)
        \/ (b.max_width >= 0 /\ ow > b.max_width)
        \/ (b.max_height >= 0 /\ oh > b.max_height)
        \/ (b.max_pixels >= 0 /\ pix_count > b.max_pixels)
     THEN 0 ELSE 1

(* The status the constraint block leaves (1 = proceed, 0 = rejected)      *)
(* for output dimensions ow x oh and a non-NULL bounds structure b.        *)
check_bounds(b, ow, oh) ==
  LET long_dim == IF oh > ow THEN oh ELSE ow
      short_dim == IF oh > ow THEN ow ELSE oh
      pix_count == ow * oh
  IN IF \/ (b.max_long >= 0 /\ long_dim > b.max_long)
        \/ (b.max_short >= 0 /\ short_dim > b.max_short)
        \/ (b.max_width >= 0 /\ ow > b.max_width)
        \/ (b.max_height >= 0 /\ oh > b.max_height)
        \/ (b.max_pixels >= 0 /\ pix_count > b.max_pixels)
     THEN 0 ELSE 1

(* after_plan when the later blocks are not guarded by status. *)
after_plan_unguarded(st) == "wopen"

(* Where jpegshrink goes after the constraint block: every later block is  *)
(* guarded by status, so a rejected request falls through to the release.  *)
after_plan(st) == IF st = 1 THEN "wopen" ELSE "exit"

(* jpegshrink: compute the output dimensions, then check the constraints   *)
(* when a bounds structure was passed.                                     *)
PlanAndCheck ==
  /\ pc = "plan"
  /\ LET ow == out_dim(in_width, sval)
         oh == out_dim(in_height, sval)
         st == IF pBounds.isNull THEN status ELSE check_bounds(pBounds, ow, oh)
     IN /\ out_width' = ow
        /\ out_height' = oh
        /\ status' = st
        /\ retval' = IF (~pBounds.isNull) /\ st = 0 THEN ERR_CONSTRAINTS
                     ELSE retval
        /\ calls' = IF pBounds.isNull THEN calls
                    ELSE Append(calls, "check_bounds")
        /\ pc' = after_plan(st)
  /\ UNCHANGED <<args, in_width, in_height, chcount, out_samples,
                 pad_height, pad_count, y, bufs, objs>>

(* ---------- sph_jpeg_writer_new ---------- *)

(* The parameter checks of sph_jpeg_writer_new that end in abort(). *)
writer_new_faults(width, height, ch) ==
  \/ width < 1 \/ width > SPH_JPEG_MAXDIM
  \/ height < 1 \/ height > SPH_JPEG_MAXDIM
  \/ (ch # 1 /\ ch # 3)

(* clamp_quality without the upper limit. *)
clamp_quality_open(quality) ==
  IF quality < SPH_JPEG_MINQ THEN SPH_JPEG_MINQ ELSE quality

(* The quality sph_jpeg_writer_new hands to jpeg_set_quality. *)
clamp_quality(quality) ==
  IF quality < SPH_JPEG_MINQ THEN SPH_JPEG_MINQ
  ELSE IF quality > SPH_JPEG_MAXQ THEN SPH_JPEG_MAXQ
  ELSE quality

sph_jpeg_writer_new(width, height, ch, quality) ==
  [width |-> width, height |-> height, written |-> 0, chcount |-> ch,
   quality |-> clamp_quality(quality), finished |-> 0, freed |-> 0]

(* calloc: n zeroed elements. *)
Zeroes(n) == [i \in 1..n |-> 0]

(* jpegshrink: open the output and allocate the input scanline buffer,     *)
(* then enter the loop named by path.                                      *)
OpenOutput(path) ==
  /\ pc = "wopen"
  /\ calls' = Append(calls, "writer_new")
  /\ IF writer_new_faults(out_width, out_height, chcount)
     THEN /\ pc' = "fault"
          /\ UNCHANGED <<pw, writer, pInScan>>
     ELSE /\ writer' = sph_jpeg_writer_new(out_width, out_height, chcount, q)
          /\ pw' = 1
          /\ pInScan' = Zeroes(out_width * sval * chcount)
          /\ pc' = path
  /\ UNCHANGED <<args, status, retval, dims, y, pAcc, pOutScan,
                 pr, reader, outRows, inRows>>

(* copy_continues without a limit. *)
copy_continues_forever(yy, inh) == TRUE

(* copy_continues admitting one position past the last scanline. *)
copy_continues_long(yy, inh) == yy <= inh

(* copy_continues stopping one scanline early. *)
copy_continues_short(yy, inh) == yy < inh - 1

(* The condition of the copy loop. *)
copy_continues(yy, inh) == yy < inh

(* The loop jpegshrink takes for scaling value s and input height inh. *)
transfer_path(s, inh) ==
  IF s <= 1
  THEN (IF copy_continues(0, inh) THEN "copy" ELSE "exit")
  ELSE "setup"

WriterNew == OpenOutput(transfer_path(sval, in_height))

(* ---------- sph_jpeg_reader_get ---------- *)

(* memset(pscan, 0, n) *)
ZeroPrefix(pscan, n) ==
  [i \in 1..Len(pscan) |-> IF i <= n THEN 0 ELSE pscan[i]]

(* StoreRow keeping the earlier scanlines and adding the new one behind    *)
(* them.                                                                   *)
StoreRow_grows(pscan, row) == pscan \o row

(* jpeg_read_scanlines stores one decoded scanline at the start of pscan. *)
StoreRow(pscan, row) ==
  [i \in 1..Len(pscan) |-> IF i <= Len(row) THEN row[i] ELSE pscan[i]]

(* reader_get_faults with the error status tested before the limit. *)
reader_get_faults_statusfirst(r) ==
  r.status = SPH_JPEG_ERR_OK /\ r.readcount >= r.height

(* The state check of sph_jpeg_reader_get that ends in abort(). *)
reader_get_faults(r) == r.readcount >= r.height

(* sph_jpeg_reader_get keeping in the height field the number of          *)
(* scanlines still to come.                                                *)
sph_jpeg_reader_get_countdown(r, pscan, j) ==
  LET rc == r.readcount + 1
      line == r.output_scanline + 1
      blank == ZeroPrefix(pscan, r.width * r.chcount)
  IN IF r.status # SPH_JPEG_ERR_OK
     THEN [reader |-> [r EXCEPT !.readcount = rc],
           scan |-> blank, ret |-> 0, decoded |-> FALSE]
     ELSE IF j.fail_at = line
     THEN [killed |-> TRUE, reader |-> [r EXCEPT !.readcount = rc],
           scan |-> pscan]
     ELSE IF rc >= r.height /\ j.fail_at = r.height + 1
     THEN [killed |-> TRUE,
           reader |-> [r EXCEPT !.readcount = rc, !.output_scanline = line],
           scan |-> StoreRow(pscan, j.rows[line])]
     ELSE [reader |-> [r EXCEPT !.readcount = rc, !.output_scanline = line,
                                !.height = IF @ > 1 THEN @ - 1 ELSE @,
                                !.finished =
                                   IF rc >= r.height THEN @ + 1 ELSE @],
           scan |-> StoreRow(pscan, j.rows[line]),
           ret |-> 1, decoded |-> TRUE]

(* sph_jpeg_reader_get recording a read error when it fails on a reader    *)
(* that is already in an error state.                                      *)
sph_jpeg_reader_get_relabel(r, pscan, j) ==
  LET rc == r.readcount + 1
      line == r.output_scanline + 1
      blank == ZeroPrefix(pscan, r.width * r.chcount)
  IN IF r.status # SPH_JPEG_ERR_OK
     THEN [reader |-> [r EXCEPT !.readcount = rc,
                                !.status = SPH_JPEG_ERR_READ],
           scan |-> blank, ret |-> 0, decoded |-> FALSE]
     ELSE IF j.fail_at = line
     THEN [killed |-> TRUE, reader |-> [r EXCEPT !.readcount = rc],
           scan |-> pscan]
     ELSE IF rc >= r.height /\ j.fail_at = r.height + 1
     THEN [killed |-> TRUE,
           reader |-> [r EXCEPT !.readcount = rc, !.output_scanline = line],
           scan |-> StoreRow(pscan, j.rows[line])]
     ELSE [reader |-> [r EXCEPT !.readcount = rc, !.output_scanline = line,
                                !.finished =
                                   IF rc >= r.height THEN @ + 1 ELSE @],
           scan |-> StoreRow(pscan, j.rows[line]),
           ret |-> 1, decoded |-> TRUE]

(* One call sph_jpeg_reader_get(r, pscan) on stream j that passed the      *)
(* state check: the reader afterwards, the buffer afterwards, the return   *)
(* value, and whether libjpeg was asked for a scanline.  An error raised   *)
(* by jpeg_read_scanlines or by jpeg_finish_decompress goes to             *)
(* sph_jpeg_error_exit and the call does not return: the result then holds *)
(* the reader and the buffer as they are when the process ends.            *)
sph_jpeg_reader_get(r, pscan, j) ==
  LET rc == r.readcount + 1
      line == r.output_scanline + 1
      blank == ZeroPrefix(pscan, r.width * r.chcount)
  IN IF r.status # SPH_JPEG_ERR_OK
     THEN [reader |-> [r EXCEPT !.readcount = rc],
           scan |-> blank, ret |-> 0, decoded |-> FALSE]
     ELSE IF j.fail_at = line
     THEN [killed |-> TRUE, reader |-> [r EXCEPT !.readcount = rc],
           scan |-> pscan]
     ELSE IF rc >= r.height /\ j.fail_at = r.height + 1
     THEN [killed |-> TRUE,
           reader |-> [r EXCEPT !.readcount = rc, !.output_scanline = line],
           scan |-> StoreRow(pscan, j.rows[line])]
     ELSE [reader |-> [r EXCEPT !.readcount = rc, !.output_scanline = line,
                                !.finished =
                                   IF rc >= r.height THEN @ + 1 ELSE @],
           scan |-> StoreRow(pscan, j.rows[line]),
           ret |-> 1, decoded |-> TRUE]

(* ---------- sph_jpeg_writer_put ---------- *)

(* The state check of sph_jpeg_writer_put that ends in abort(). *)
writer_put_faults(w) == w.written >= w.height

(* sph_jpeg_writer_put finishing only beyond the last scanline. *)
sph_jpeg_writer_put_nofinish(w) ==
  [w EXCEPT !.written = @ + 1,
            !.finished = IF w.written + 1 > w.height THEN @ + 1 ELSE @]

(* The writer after one sph_jpeg_writer_put that passed the state check. *)
sph_jpeg_writer_put(w) ==
  [w EXCEPT !.written = @ + 1,
            !.finished = IF w.written + 1 >= w.height THEN @ + 1 ELSE @]

(* The samples jpeg_write_scanlines takes from the buffer it is handed. *)
TakeRow(w, pscan) == SubSeq(pscan, 1, w.width * w.chcount)

(* ---------- jpegshrink: the copy loop (sval = 1) ---------- *)

(* One iteration of the copy loop: read a scanline, write it. *)
CopyRow ==
  /\ pc = "copy"
  /\ copy_continues(y, in_height)
  /\ IF reader_get_faults(reader)
     THEN /\ pc' = "fault"
          /\ calls' = Append(calls, "reader_get")
          /\ UNCHANGED <<status, y, pInScan, reader, writer, outRows, inRows>>
     ELSE LET g == sph_jpeg_reader_get(reader, pInScan, jpeg)
          IN IF IsKilled(g)
             THEN /\ pc' = "crash"
                  /\ calls' = Append(calls, "reader_get")
                  /\ reader' = g.reader
                  /\ pInScan' = g.scan
                  /\ UNCHANGED <<status, y, writer, outRows, inRows>>
             ELSE
             /\ reader' = g.reader
             /\ pInScan' = g.scan
             /\ inRows' = IF g.ret = 1 THEN Append(inRows, g.scan) ELSE inRows
             /\ status' = IF g.ret = 0 THEN 0 ELSE status
             /\ IF g.ret = 0
                THEN /\ calls' = Append(calls, "reader_get")
                     /\ pc' = "exit"
                     /\ UNCHANGED <<y, writer, outRows>>
                ELSE IF writer_put_faults(writer)
                THEN /\ calls' = calls \o << "reader_get", "writer_put" >>
                     /\ pc' = "fault"
                     /\ UNCHANGED <<y, writer, outRows>>
                ELSE /\ calls' = calls \o << "reader_get", "writer_put" >>
                     /\ writer' = sph_jpeg_writer_put(writer)
                     /\ outRows' = Append(outRows, TakeRow(writer, g.scan))
                     /\ y' = y + 1
                     /\ pc' = IF copy_continues(y + 1, in_height)
                              THEN "copy" ELSE "exit"
  /\ UNCHANGED <<args, retval, dims, pAcc, pOutScan, pr, pw>>

(* ---------- the stages of the general path ---------- *)

(* The parameter checks of jpegshrink_padscan that end in abort(). *)
padscan_faults(inw, padc, ch) ==
  \/ inw < 1 \/ inw > SPH_JPEG_MAXDIM
  \/ padc < 0 \/ padc > JPEGSHRINK_MAXSHRINK
  \/ (ch # 1 /\ ch # 3)

(* jpegshrink_padscan duplicating the last pixel padc - 1 times only. *)
jpegshrink_padscan_short(scan, inw, padc, ch) ==
  LET plast == (inw - 1) * ch
  IN [k \in 1..Len(scan) |->
        LET o == (k - 1) - plast
        IN IF padc > 0 /\ o >= ch /\ o < padc * ch
           THEN scan[plast + (o % ch) + 1]
           ELSE scan[k]]

(* jpegshrink_padscan: pixels inw .. inw + padc - 1 receive the samples of *)
(* pixel inw - 1 (plast); o is the offset of a sample from plast.          *)
jpegshrink_padscan(scan, inw, padc, ch) ==
  LET plast == (inw - 1) * ch
  IN [k \in 1..Len(scan) |->
        LET o == (k - 1) - plast
        IN IF padc > 0 /\ o >= ch /\ o < (padc + 1) * ch
           THEN scan[plast + (o % ch) + 1]
           ELSE scan[k]]

(* The parameter checks of jpegshrink_mixscan that end in abort(). *)
mixscan_faults(ow, s, ch) ==
  \/ ow < 1 \/ ow > SPH_JPEG_MAXDIM
  \/ s < 1 \/ s > JPEGSHRINK_MAXSHRINK
  \/ (ch # 1 /\ ch # 3)

(* mixscan_step advancing the accumulator pointer after the first pixel of *)
(* a window instead of the last.                                           *)
mixscan_step_early(m, scan, pad_width, s, ch) ==
  LET added == [k \in 1..Len(m.acc) |->
                  IF k > m.ap /\ k <= m.ap + ch
                  THEN (m.acc[k] + scan[m.ip + (k - m.ap)]) % UINT16_MOD
                  ELSE m.acc[k]]
      move == m.x < pad_width - 1
      step == s < 2 \/ (m.x % s) = 0
  IN [x |-> m.x + 1,
      ip |-> IF move THEN m.ip + ch ELSE m.ip,
      ap |-> IF move /\ step THEN m.ap + ch ELSE m.ap,
      acc |-> added]

(* mixscan_step never advancing the accumulator pointer. *)
mixscan_step_stuck(m, scan, pad_width, s, ch) ==
  LET added == [k \in 1..Len(m.acc) |->
                  IF k > m.ap /\ k <= m.ap + ch
                  THEN (m.acc[k] + scan[m.ip + (k - m.ap)]) % UINT16_MOD
                  ELSE m.acc[k]]
      move == m.x < pad_width - 1
  IN [x |-> m.x + 1,
      ip |-> IF move THEN m.ip + ch ELSE m.ip,
      ap |-> m.ap,
      acc |-> added]

(* mixscan_step advancing the accumulator pointer on the modulo test only  *)
(* when sval is at least two.                                              *)
mixscan_step_noadvance(m, scan, pad_width, s, ch) ==
  LET added == [k \in 1..Len(m.acc) |->
                  IF k > m.ap /\ k <= m.ap + ch
                  THEN (m.acc[k] + scan[m.ip + (k - m.ap)]) % UINT16_MOD
                  ELSE m.acc[k]]
      move == m.x < pad_width - 1
      step == s >= 2 /\ (m.x % s) >= s - 1
  IN [x |-> m.x + 1,
      ip |-> IF move THEN m.ip + ch ELSE m.ip,
      ap |-> IF move /\ step THEN m.ap + ch ELSE m.ap,
      acc |-> added]

(* One iteration of the loop of jpegshrink_mixscan.  m holds the loop      *)
(* counter x, the offsets ip and ap of the two walking pointers from the   *)
(* start of their buffers, and the accumulator.                            *)
mixscan_step(m, scan, pad_width, s, ch) ==
  LET added == [k \in 1..Len(m.acc) |->
                  IF k > m.ap /\ k <= m.ap + ch
                  THEN (m.acc[k] + scan[m.ip + (k - m.ap)]) % UINT16_MOD
                  ELSE m.acc[k]]
      move == m.x < pad_width - 1
      step == s < 2 \/ (m.x % s) >= s - 1
  IN [x |-> m.x + 1,
      ip |-> IF move THEN m.ip + ch ELSE m.ip,
      ap |-> IF move /\ step THEN m.ap + ch ELSE m.ap,
      acc |-> added]

(* The loop of jpegshrink_mixscan: the steps are applied while x is below  *)
(* pad_width, each to the value the step before it produced.              *)
RECURSIVE mixscan_loop(_, _, _, _, _)
mixscan_loop(m, scan, pad_width, s, ch) ==
  IF m.x < pad_width
  THEN CHOOSE acc \in { mixscan_loop(n, scan, pad_width, s, ch) :
                          n \in {mixscan_step(m, scan, pad_width, s, ch)} } :
         TRUE
  ELSE m.acc

(* jpegshrink_mixscan: the accumulator after mixing one padded scanline. *)
jpegshrink_mixscan(scan, acc, ow, s, ch) ==
  mixscan_loop([x |-> 0, ip |-> 0, ap |-> 0, acc |-> acc],
               scan, ow * s, s, ch)

(* The parameter checks of jpegshrink_avgblit that end in abort(). *)
avgblit_faults(n, s) ==
  \/ n < 1 \/ n > SPH_JPEG_MAXDIM * 3
  \/ s < 1 \/ s > JPEGSHRINK_MAXSHRINK

(* avg_sample dividing by s instead of s * s. *)
avg_sample_bys(a, s) ==
  LET sv == a \div s
  IN IF sv < 0 THEN 0 ELSE IF sv > 255 THEN 255 ELSE sv

(* avg_sample rounding to nearest instead of truncating. *)
avg_sample_rounded(a, s) ==
  LET sv == (a + ((s * s) \div 2)) \div (s * s)
  IN IF sv < 0 THEN 0 ELSE IF sv > 255 THEN 255 ELSE sv

(* The averaged and clamped value of one accumulator sample. *)
avg_sample(a, s) ==
  LET sv == a \div (s * s)
  IN IF sv < 0 THEN 0 ELSE IF sv > 255 THEN 255 ELSE sv

(* jpegshrink_avgblit: the output scanline buffer after the transfer. *)
jpegshrink_avgblit(acc, outscan, n, s) ==
  [i \in 1..Len(outscan) |->
     IF i <= n THEN avg_sample(acc[i], s) ELSE outscan[i]]

(* ---------- jpegshrink: the general path (sval > 1) ---------- *)

(* Allocate the accumulator and the output scanline, compute the padded    *)
(* height, the pad count and the samples per output scanline.              *)
ScaleSetup ==
  /\ pc = "setup"
  /\ pAcc' = Zeroes(out_width * chcount)
  /\ pOutScan' = Zeroes(out_width * chcount)
  /\ pad_height' = out_height * sval
  /\ pad_count' = (out_width * sval) - in_width
  /\ out_samples' = out_width * chcount
  /\ pc' = IF 0 < out_height * sval THEN "scale" ELSE "exit"
  /\ UNCHANGED <<args, status, retval, in_width, in_height, chcount,
                 out_width, out_height, y, pInScan, objs, calls>>

(* zero_due at the first position only. *)
zero_due_first(st, yy, s) == st = 1 /\ yy = 0

(* Whether the iteration at position yy zeroes the accumulator first. *)
zero_due(st, yy, s) == st = 1 /\ (yy % s) = 0

(* read_due at every position, padding rows included. *)
read_due_always(yy, inh) == TRUE

(* Whether the iteration at position yy reads a scanline from the input. *)
read_due(yy, inh) == yy < inh

(* put_due at every position. *)
put_due_every(st, yy, s) == st = 1

(* Whether the iteration at position yy averages and writes a scanline. *)
put_due(st, yy, s) == st = 1 /\ (yy % s) >= (s - 1)

(* One iteration of the loop over the padded input Y space. *)
ScaleRow ==
  /\ pc = "scale"
  /\ y < pad_height
  /\ LET doRead == read_due(y, in_height)
         g == sph_jpeg_reader_get(reader, pInScan, jpeg)
         st == IF doRead /\ g.ret = 0 THEN 0 ELSE status
         ok == st = 1
         scan1 == IF doRead THEN g.scan ELSE pInScan
         doPad == doRead /\ ok
         scan2 == IF doPad
                  THEN jpegshrink_padscan(scan1, in_width, pad_count, chcount)
                  ELSE scan1
         doZero == zero_due(st, y, sval)
         acc1 == IF doZero
                 THEN [i \in 1..Len(pAcc) |-> IF i <= out_samples THEN 0
                                              ELSE pAcc[i]]
                 ELSE pAcc
         acc2 == IF ok
                 THEN jpegshrink_mixscan(scan2, acc1, out_width, sval, chcount)
                 ELSE acc1
         doPut == put_due(st, y, sval)
         fault == \/ (doRead /\ reader_get_faults(reader))
                  \/ (doPad /\ padscan_faults(in_width, pad_count, chcount))
                  \/ (ok /\ mixscan_faults(out_width, sval, chcount))
                  \/ (doPut /\ avgblit_faults(out_samples, sval))
                  \/ (doPut /\ writer_put_faults(writer))
         out1 == IF doPut
                 THEN jpegshrink_avgblit(acc2, pOutScan, out_samples, sval)
                 ELSE pOutScan
     IN IF doRead /\ ~reader_get_faults(reader) /\ IsKilled(g)
        THEN /\ pc' = "crash"
             /\ calls' = Append(calls, "reader_get")
             /\ reader' = g.reader
             /\ pInScan' = g.scan
             /\ UNCHANGED <<status, y, pAcc, pOutScan, writer, outRows,
                            inRows>>
        ELSE IF fault
        THEN /\ pc' = "fault"
             /\ calls' = Append(calls, "abort")
             /\ UNCHANGED <<status, y, bufs, reader, writer, outRows, inRows>>
        ELSE /\ status' = st
             /\ reader' = IF doRead THEN g.reader ELSE reader
             /\ inRows' = IF doRead /\ ok
                          THEN Append(inRows, SubSeq(g.scan, 1,
                                                in_width * chcount))
                          ELSE inRows
             /\ pInScan' = scan2
             /\ pAcc' = acc2
             /\ pOutScan' = out1
             /\ writer' = IF doPut THEN sph_jpeg_writer_put(writer) ELSE writer
             /\ outRows' = IF doPut THEN Append(outRows, TakeRow(writer, out1))
                           ELSE outRows
             /\ calls' = calls
                  \o (IF doRead THEN << "reader_get" >> ELSE << >>)
                  \o (IF doPad THEN << "padscan" >> ELSE << >>)
                  \o (IF doZero THEN << "zero" >> ELSE << >>)
                  \o (IF ok THEN << "mixscan" >> ELSE << >>)
                  \o (IF doPut THEN << "avgblit", "writer_put" >> ELSE << >>)
             /\ y' = IF ok THEN y + 1 ELSE y
             /\ pc' = IF ok /\ y + 1 < pad_height THEN "scale" ELSE "exit"
  /\ UNCHANGED <<args, retval, dims, pr, pw>>

(* ---------- jpegshrink: return value and release ---------- *)

(* sph_jpeg_reader_free finishing a decompression that is not finished. *)
sph_jpeg_reader_free_finishes(p, r) ==
  IF p # 0
  THEN [r EXCEPT !.freed = @ + 1,
                 !.finished = IF r.finished = 0 THEN 1 ELSE @]
  ELSE r

(* sph_jpeg_reader_free(p) where p is NULL (0) or points to r. *)
sph_jpeg_reader_free(p, r) ==
  IF p # 0 THEN [r EXCEPT !.freed = @ + 1] ELSE r

(* sph_jpeg_writer_free finishing the compression of an incomplete image. *)
sph_jpeg_writer_free_finishes(p, w) ==
  IF p # 0
  THEN [w EXCEPT !.freed = @ + 1,
                 !.finished = IF w.written < w.height THEN @ + 1 ELSE @]
  ELSE w

(* sph_jpeg_writer_free(p) where p is NULL (0) or points to w. *)
sph_jpeg_writer_free(p, w) ==
  IF p # 0 THEN [w EXCEPT !.freed = @ + 1] ELSE w

(* The value jpegshrink returns, from the local status, the local retval   *)
(* and the status of the reader.                                           *)
return_value(st, rv, rstatus) ==
  IF st = 0 /\ rv # ERR_CONSTRAINTS THEN rstatus ELSE rv

Exit ==
  /\ pc = "exit"
  /\ retval' = return_value(status, retval, reader.status)
  /\ calls' = calls
       \o (IF status = 0 /\ retval # ERR_CONSTRAINTS
           THEN << "reader_status" >> ELSE << >>)
       \o << "reader_free", "writer_free" >>
  /\ reader' = sph_jpeg_reader_free(pr, reader)
  /\ writer' = sph_jpeg_writer_free(pw, writer)
  /\ pr' = 0
  /\ pw' = 0
  /\ pInScan' = << >>
  /\ pAcc' = << >>
  /\ pOutScan' = << >>
  /\ pc' = "done"
  /\ UNCHANGED <<args, status, dims, y, outRows, inRows>>

Next ==
  \/ ReaderNew
  \/ PlanAndCheck
  \/ WriterNew
  \/ CopyRow
  \/ ScaleSetup
  \/ ScaleRow
  \/ Exit

Spec == Init /\ [][Next]_vars

(* jpegshrink is sequential code: as long as the calls it makes return, its *)
(* next step is taken.                                                     *)
(* The runs without constraints and the runs with a bound of 0 in every    *)
(* field, at one quality.                                                  *)
InitLive ==
  /\ Init
  /\ q = 95
  /\ pBounds.isNull \/ \A f \in BoundFields : pBounds[f] = 0

SpecLive == InitLive /\ [][Next]_vars /\ WF_vars(Next)

(* ---------- the identity shrink applied to its own output ---------- *)

InitTwice == Init /\ sval = 1

(* After a successful shrink the caller runs jpegshrink again with the     *)
(* same arguments, on an input stream that decodes to the header the       *)
(* writer was opened with and to the scanline sequence it was handed.  The *)
(* file the writer produced is no such stream: the writer compresses with  *)
(* a quality of at most SPH_JPEG_MAXQ and its file decodes to other        *)
(* samples.  The input of the first run is such a stream when that run     *)
(* handed the writer what it read.                                         *)
Reshrink ==
  /\ pc = "done"
  /\ retval = SPH_JPEG_ERR_OK
  /\ original = << >>
  /\ original' = jpeg.rows
  /\ jpeg' \in {j \in ValidStreams :
                  /\ j.fail_at = 0
                  /\ j.output_width = writer.width
                  /\ j.output_height = writer.height
                  /\ j.output_components = writer.chcount
                  /\ j.rows = outRows}
  /\ pc' = "open"
  /\ status' = 1
  /\ retval' = SPH_JPEG_ERR_OK
  /\ in_width' = 0 /\ in_height' = 0 /\ chcount' = 0
  /\ out_width' = 0 /\ out_height' = 0 /\ out_samples' = 0
  /\ pad_height' = 0 /\ pad_count' = 0
  /\ y' = 0
  /\ pr' = 0 /\ pw' = 0
  /\ reader' = NoReader
  /\ writer' = NoWriter
  /\ pInScan' = << >> /\ pAcc' = << >> /\ pOutScan' = << >>
  /\ outRows' = << >>
  /\ inRows' = << >>
  /\ calls' = << >>
  /\ UNCHANGED <<sval, q, pBounds, argv, rval, qval, exit_code>>

NextTwice ==
  \/ ReaderNew
  \/ PlanAndCheck
  \/ WriterNew
  \/ CopyRow
  \/ Exit
  \/ Reshrink

SpecTwice == InitTwice /\ [][NextTwice]_vars

(* ---------- the mixing stage alone ---------- *)

(* One call of jpegshrink_mixscan on a padded scanline of ow * s pixels,   *)
(* with valid and invalid scaling values and channel counts.  The          *)
(* accumulator is zero or holds earlier sums, and is followed by one more  *)
(* pixel that the call has no business with.                               *)
InitMix ==
  /\ \E ow \in 1..MaxW, s \in (0..MaxS) \cup {16, 17}, ch \in {1, 2, 3},
        p \in Patterns :
        /\ jpeg = [libj_err |-> FALSE, output_width |-> ow * s,
                   output_height |-> 1, output_components |-> ch,
                   fail_at |-> 0, rows |-> MakeImage(p, ow * s, 1, ch)]
        /\ out_width = ow /\ sval = s /\ chcount = ch
        /\ pAcc \in {Zeroes((ow + 1) * ch),
                      [i \in 1..((ow + 1) * ch) |-> 100 * i]}
  /\ pInScan = jpeg.rows[1]
  /\ NoCommand
  /\ original = << >>
  /\ q = SPH_JPEG_MAXQ
  /\ pBounds = NullBounds
  /\ pc = "mix"
  /\ status = 1
  /\ retval = SPH_JPEG_ERR_OK
  /\ in_width = 0 /\ in_height = 0
  /\ out_height = 0 /\ out_samples = 0
  /\ pad_height = 0 /\ pad_count = 0
  /\ y = 0
  /\ pr = 0 /\ pw = 0
  /\ reader = NoReader
  /\ writer = NoWriter
  /\ pOutScan = << >>
  /\ outRows = << >>
  /\ inRows = << >>
  /\ calls = << >>

MixScan ==
  /\ pc = "mix"
  /\ IF mixscan_faults(out_width, sval, chcount)
     THEN /\ pc' = "fault"
          /\ calls' = Append(calls, "abort")
          /\ UNCHANGED pAcc
     ELSE /\ pAcc' = jpegshrink_mixscan(pInScan, pAcc, out_width, sval,
                                        chcount)
          /\ calls' = Append(calls, "mixscan")
          /\ pc' = "mixed"
  /\ UNCHANGED <<args, status, retval, dims, y, pInScan, pOutScan, objs>>

NextMix == MixScan

SpecMix == InitMix /\ [][NextMix]_vars

(* ---------- a client of the reader alone ---------- *)

(* The state before a client of the reader or the writer starts at pc0. *)
ClientStart(pc0) ==
  /\ NoCommand
  /\ original = << >>
  /\ sval = 1
  /\ pBounds = NullBounds
  /\ pc = pc0
  /\ status = 1
  /\ retval = SPH_JPEG_ERR_OK
  /\ in_width = 0 /\ in_height = 0 /\ chcount = 0
  /\ out_width = 0 /\ out_height = 0 /\ out_samples = 0
  /\ pad_height = 0 /\ pad_count = 0
  /\ y = 0
  /\ pr = 0 /\ pw = 0
  /\ reader = NoReader
  /\ writer = NoWriter
  /\ pInScan = << >> /\ pAcc = << >> /\ pOutScan = << >>
  /\ outRows = << >>
  /\ inRows = << >>
  /\ calls = << >>

(* A scanline buffer as malloc returns it: n bytes that are not zero. *)
Uncleared(n) == [i \in 1..n |-> 170]

InitReader ==
  /\ jpeg \in ValidStreams \cup OpenFailStreams \cup HugeStreams
  /\ q \in {SPH_JPEG_MAXQ}
  /\ ClientStart("r_new")

(* The client opens the reader and allocates a scanline buffer of          *)
(* width * channels bytes.                                                 *)
ClientReaderNew ==
  /\ pc = "r_new"
  /\ LET r == sph_jpeg_reader_new(jpeg)
     IN IF IsKilled(r)
        THEN /\ pc' = "crash"
             /\ UNCHANGED <<reader, pInScan, pr>>
        ELSE /\ reader' = r
             /\ pInScan' = Uncleared(r.width * r.chcount)
             /\ pr' = 1
             /\ pc' = "r_use"
  /\ calls' = Append(calls, "reader_new")
  /\ UNCHANGED <<args, status, retval, dims, y, pAcc, pOutScan,
                 pw, writer, outRows, inRows>>

(* The client calls sph_jpeg_reader_get, whatever the reader's state; the  *)
(* local status receives the return value.                                 *)
ClientReaderGet ==
  /\ pc = "r_use"
  /\ IF reader_get_faults(reader)
     THEN /\ pc' = "fault"
          /\ calls' = Append(calls, "reader_get")
          /\ UNCHANGED <<status, reader, pInScan, inRows>>
     ELSE LET g == sph_jpeg_reader_get(reader, pInScan, jpeg)
          IN IF IsKilled(g)
             THEN /\ pc' = "crash"
                  /\ calls' = calls \o << "reader_get", "jpeg_read_scanlines" >>
                  /\ reader' = g.reader
                  /\ pInScan' = g.scan
                  /\ UNCHANGED <<status, inRows>>
             ELSE
             /\ reader' = g.reader
             /\ pInScan' = g.scan
             /\ status' = g.ret
             /\ inRows' = IF g.ret = 1 THEN Append(inRows, g.scan) ELSE inRows
             /\ calls' = calls \o << "reader_get" >>
                  \o (IF g.decoded THEN << "jpeg_read_scanlines" >>
                      ELSE << >>)
             /\ pc' = "r_use"
  /\ UNCHANGED <<args, retval, dims, y, pAcc, pOutScan, pr, pw, writer,
                 outRows>>

(* The client releases the reader. *)
ClientReaderFree ==
  /\ pc = "r_use"
  /\ reader' = sph_jpeg_reader_free(pr, reader)
  /\ pr' = 0
  /\ calls' = Append(calls, "reader_free")
  /\ pc' = "done"
  /\ UNCHANGED <<args, status, retval, dims, y, bufs, pw, writer,
                 outRows, inRows>>

NextReader == ClientReaderNew \/ ClientReaderGet \/ ClientReaderFree

SpecReader == InitReader /\ [][NextReader]_vars

(* ---------- a client of the writer alone ---------- *)

(* The client writes the scanlines of jpeg.rows. *)
InitWriter ==
  /\ jpeg \in {j \in ValidStreams : j.fail_at = 0}
  /\ q \in Qualities
  /\ ClientStart("w_new")

ClientWriterNew ==
  /\ pc = "w_new"
  /\ calls' = Append(calls, "writer_new")
  /\ IF writer_new_faults(jpeg.output_width, jpeg.output_height,
                          jpeg.output_components)
     THEN /\ pc' = "fault"
          /\ UNCHANGED <<pw, writer>>
     ELSE /\ writer' = sph_jpeg_writer_new(jpeg.output_width,
                          jpeg.output_height, jpeg.output_components, q)
          /\ pw' = 1
          /\ pc' = "w_use"
  /\ UNCHANGED <<args, status, retval, dims, y, bufs, pr, reader,
                 outRows, inRows>>

(* The client calls sph_jpeg_writer_put, whatever the writer's state. *)
ClientWriterPut ==
  /\ pc = "w_use"
  /\ calls' = Append(calls, "writer_put")
  /\ IF writer_put_faults(writer)
     THEN /\ pc' = "fault"
          /\ UNCHANGED <<writer, outRows>>
     ELSE /\ writer' = sph_jpeg_writer_put(writer)
          /\ outRows' = Append(outRows,
                               TakeRow(writer, jpeg.rows[writer.written + 1]))
          /\ pc' = "w_use"
  /\ UNCHANGED <<args, status, retval, dims, y, bufs, pr, pw, reader, inRows>>

(* The client releases the writer, complete or not. *)
ClientWriterFree ==
  /\ pc = "w_use"
  /\ writer' = sph_jpeg_writer_free(pw, writer)
  /\ pw' = 0
  /\ calls' = Append(calls, "writer_free")
  /\ pc' = "done"
  /\ UNCHANGED <<args, status, retval, dims, y, bufs, pr, reader,
                 outRows, inRows>>

NextWriter == ClientWriterNew \/ ClientWriterPut \/ ClientWriterFree

SpecWriter == InitWriter /\ [][NextWriter]_vars

(* ---------- the stages called with sval = 1 ---------- *)

(* jpegshrink runs its stages with sval >= 2 only.  Here the zeroing block, *)
(* the mixing stage and the averaging stage are applied, one after the     *)
(* other,                                                                  *)
(* to arguments of their own: scanline y of an image w pixels wide, a      *)
(* scaling value of one, an accumulator of w * channels entries that holds *)
(* zeroes or the sums of an earlier row, and a zeroed output scanline.     *)
InitStages ==
  /\ \E w \in 1..MaxW, h \in 1..MaxH, ch \in {1, 3}, p \in Patterns :
        /\ jpeg = [libj_err |-> FALSE, output_width |-> w,
                   output_height |-> h, output_components |-> ch,
                   fail_at |-> 0, rows |-> MakeImage(p, w, h, ch)]
        /\ out_width = w /\ chcount = ch /\ out_samples = w * ch
        /\ y \in 0..(h - 1)
        /\ pAcc \in {Zeroes(w * ch), [i \in 1..(w * ch) |-> 100 * i]}
        /\ pOutScan = Zeroes(w * ch)
  /\ pInScan = jpeg.rows[y + 1]
  /\ sval = 1
  /\ NoCommand
  /\ original = << >>
  /\ q = SPH_JPEG_MAXQ
  /\ pBounds = NullBounds
  /\ pc = "zero"
  /\ status = 1
  /\ retval = SPH_JPEG_ERR_OK
  /\ in_width = 0 /\ in_height = 0
  /\ out_height = 0
  /\ pad_height = 0 /\ pad_count = 0
  /\ pr = 0 /\ pw = 0
  /\ reader = NoReader
  /\ writer = NoWriter
  /\ outRows = << >>
  /\ inRows = << >>
  /\ calls = << >>

(* When status is set and y is a multiple of sval, the first out_samples    *)
(* entries of the accumulator are set to zero; otherwise the accumulator   *)
(* is left as it is.                                                       *)
ZeroAcc ==
  /\ pc = "zero"
  /\ IF zero_due(status, y, sval)
     THEN /\ pAcc' = [i \in 1..Len(pAcc) |-> IF i <= out_samples THEN 0
                                             ELSE pAcc[i]]
          /\ calls' = Append(calls, "zero")
     ELSE UNCHANGED <<pAcc, calls>>
  /\ pc' = "mix"
  /\ UNCHANGED <<args, status, retval, dims, y, pInScan, pOutScan, objs>>

(* One call of jpegshrink_avgblit on the accumulator and the output        *)
(* scanline.                                                               *)
AvgBlit ==
  /\ pc = "mixed"
  /\ IF avgblit_faults(out_samples, sval)
     THEN /\ pc' = "fault"
          /\ calls' = Append(calls, "abort")
          /\ UNCHANGED pOutScan
     ELSE /\ pOutScan' = jpegshrink_avgblit(pAcc, pOutScan, out_samples, sval)
          /\ calls' = Append(calls, "avgblit")
          /\ pc' = "blitted"
  /\ UNCHANGED <<args, status, retval, dims, y, pInScan, pAcc, objs>>

NextStages == ZeroAcc \/ MixScan \/ AvgBlit

SpecStages == InitStages /\ [][NextStages]_vars

(* ---------- parseInt (jpeg_reduce.c and jpeg_echo.c) ---------- *)

(* parse_digit refusing a sum that would not leave room for a digit 9. *)
parse_digit_strict(r, c) ==
  LET inRange == ~(ord[c] < ord["0"] \/ ord[c] > ord["9"])
      d == ord[c] - ord["0"]
  IN IF ~inRange THEN [status |-> 0, result |-> r.result]
     ELSE IF ~(r.result <= INT32_MAX \div 10)
     THEN [status |-> 0, result |-> r.result]
     ELSE IF ~(r.result * 10 <= INT32_MAX - 9)
     THEN [status |-> 0, result |-> r.result * 10]
     ELSE [status |-> 1, result |-> r.result * 10 + d]

(* One iteration of the digit loop of parseInt on the character c: the     *)
(* range test, the multiplication by ten and the addition of the digit,    *)
(* each of the last two behind its overflow test.                          *)
parse_digit(r, c) ==
  LET inRange == ~(ord[c] < ord["0"] \/ ord[c] > ord["9"])
      d == ord[c] - ord["0"]
  IN IF ~inRange THEN [status |-> 0, result |-> r.result]
     ELSE IF ~(r.result <= INT32_MAX \div 10)
     THEN [status |-> 0, result |-> r.result]
     ELSE IF ~(r.result * 10 <= INT32_MAX - d)
     THEN [status |-> 0, result |-> r.result * 10]
     ELSE [status |-> 1, result |-> r.result * 10 + d]

(* The digit loop: it runs to the end of the string and leaves at the      *)
(* first error.                                                            *)
RECURSIVE parse_digits(_, _)
parse_digits(r, str) ==
  IF str = << >> \/ r.status = 0 THEN r
  ELSE parse_digits(parse_digit(r, Head(str)), Tail(str))

(* parseInt: ret is the returned status and v the value of *pv after the   *)
(* call, pv being its value before.                                        *)
parseInt(pstr, pv) ==
  LET signed == pstr # << >> /\ (pstr[1] = "+" \/ pstr[1] = "-")
      negflag == pstr # << >> /\ pstr[1] = "-"
      rest == IF signed THEN Tail(pstr) ELSE pstr
      r == IF rest = << >> THEN [status |-> 0, result |-> 0]
           ELSE parse_digits([status |-> 1, result |-> 0], rest)
  IN [ret |-> r.status,
      v |-> IF r.status = 1
            THEN (IF negflag THEN -(r.result) ELSE r.result)
            ELSE pv]

(* One call parseInt(argv[1], &rval) with rval holding an earlier value. *)
InitParse ==
  /\ jpeg \in {j \in QualityStreams : j.output_components = 1}
  /\ q = DEFAULT_Q_VAL
  /\ \E str \in ParseStrings : argv = <<ProgName, str>>
  /\ rval \in PriorValues
  /\ qval = DEFAULT_Q_VAL
  /\ exit_code = -1
  /\ original = << >>
  /\ sval = 1
  /\ pBounds = NullBounds
  /\ pc = "parse"
  /\ status = 1
  /\ retval = SPH_JPEG_ERR_OK
  /\ in_width = 0 /\ in_height = 0 /\ chcount = 0
  /\ out_width = 0 /\ out_height = 0 /\ out_samples = 0
  /\ pad_height = 0 /\ pad_count = 0
  /\ y = 0
  /\ pr = 0 /\ pw = 0
  /\ reader = NoReader
  /\ writer = NoWriter
  /\ pInScan = << >> /\ pAcc = << >> /\ pOutScan = << >>
  /\ outRows = << >>
  /\ inRows = << >>
  /\ calls = << >>

ParseArg ==
  /\ pc = "parse"
  /\ LET p == parseInt(argv[2], rval)
     IN /\ status' = p.ret
        /\ rval' = p.v
  /\ calls' = Append(calls, "parseInt")
  /\ pc' = "parsed"
  /\ UNCHANGED <<jpeg, original, sval, q, pBounds, argv, qval, exit_code,
                 retval, dims, y, bufs, objs>>

NextParse == ParseArg

SpecParse == InitParse /\ [][NextParse]_vars

(* ---------- jpeg_reduce: main ---------- *)

(* rval_out_of_range admitting zero. *)
rval_out_of_range_zero(v) == v < 0 \/ v > JPEGSHRINK_MAXSHRINK

(* The range check of the reduction value. *)
rval_out_of_range(v) == v < 1 \/ v > JPEGSHRINK_MAXSHRINK

(* The range check of the quality value. *)
qval_out_of_range(v) == v < 0 \/ v > 100

(* The check of sval at the entry of jpegshrink that ends in abort(). *)
jpegshrink_faults(s) == s < 1 \/ s > JPEGSHRINK_MAXSHRINK

(* main passes four arguments to jpegshrink, which takes five: the value   *)
(* jpegshrink finds in pBounds is indeterminate.  It may be NULL, it may   *)
(* point to readable memory holding any five values, and it may be an      *)
(* address that cannot be read.                                            *)
WildBounds == [isNull |-> FALSE, unreadable |-> TRUE]

IndeterminateBounds ==
  {NullBounds, WildBounds}
    \cup {b \in BoundsStructs : \A f \in BoundFields : b[f] = b.max_long}

(* The exit status after jpegshrink returned rv. *)
exit_status(rv) == IF rv # SPH_JPEG_ERR_OK THEN 1 ELSE 0

InitTool ==
  /\ jpeg \in ToolStreams
  /\ argv \in CommandLines
  /\ rval = 0
  /\ qval = DEFAULT_Q_VAL
  /\ exit_code = -1
  /\ sval = 0
  /\ q = 0
  /\ pBounds = NullBounds
  /\ original = << >>
  /\ pc = "main"
  /\ status = 1
  /\ retval = SPH_JPEG_ERR_OK
  /\ in_width = 0 /\ in_height = 0 /\ chcount = 0
  /\ out_width = 0 /\ out_height = 0 /\ out_samples = 0
  /\ pad_height = 0 /\ pad_count = 0
  /\ y = 0
  /\ pr = 0 /\ pw = 0
  /\ reader = NoReader
  /\ writer = NoWriter
  /\ pInScan = << >> /\ pAcc = << >> /\ pOutScan = << >>
  /\ outRows = << >>
  /\ inRows = << >>
  /\ calls = << >>

(* main up to the call of jpegshrink and the parameter check at its        *)
(* entry, or up to the return of main when an argument is refused.         *)
Main ==
  /\ pc = "main"
  /\ LET argc == Len(argv)
         countOK == argc = 2 \/ argc = 3
         p1 == parseInt(argv[2], rval)
         st1 == countOK /\ p1.ret # 0 /\ ~rval_out_of_range(p1.v)
         p2 == parseInt(argv[3], qval)
         st2 == st1 /\ (argc > 2 => (p2.ret # 0 /\ ~qval_out_of_range(p2.v)))
         rv == IF countOK THEN p1.v ELSE rval
         qv == IF st1 /\ argc > 2 THEN p2.v ELSE qval
     IN /\ rval' = rv
        /\ qval' = qv
        /\ IF st2
           THEN /\ sval' = rv
                /\ q' = qv
                /\ pBounds' \in IndeterminateBounds
                /\ calls' = Append(calls, "jpegshrink")
                          \o (IF jpegshrink_faults(rv) THEN << "abort" >>
                              ELSE << >>)
                /\ pc' = IF jpegshrink_faults(rv) THEN "fault" ELSE "open"
                /\ UNCHANGED exit_code
           ELSE /\ calls' = Append(calls, "fprintf")
                /\ exit_code' = 1
                /\ pc' = "exited"
                /\ UNCHANGED <<sval, q, pBounds>>
  /\ UNCHANGED <<jpeg, original, argv, status, retval, dims, y, bufs, objs>>

(* jpegshrink computes the output dimensions and then reads the fields of  *)
(* a bounds structure at an address that cannot be read: the process is    *)
(* ended by a signal.                                                      *)
WildDeref ==
  /\ pc = "plan"
  /\ pBounds = WildBounds
  /\ out_width' = out_dim(in_width, sval)
  /\ out_height' = out_dim(in_height, sval)
  /\ pc' = "crash"
  /\ UNCHANGED <<args, status, retval, in_width, in_height, chcount,
                 out_samples, pad_height, pad_count, y, bufs, objs, calls>>

(* main after jpegshrink returned: the message, the inverted status. *)
MainReturn ==
  /\ pc = "done"
  /\ exit_code' = exit_status(retval)
  /\ calls' = IF retval # SPH_JPEG_ERR_OK
              THEN calls \o << "errstr", "fprintf" >> ELSE calls
  /\ pc' = "exited"
  /\ UNCHANGED <<jpeg, original, sval, q, pBounds, argv, rval, qval,
                 status, retval, dims, y, bufs, objs>>

NextTool ==
  \/ Main
  \/ ReaderNew
  \/ (pBounds # WildBounds /\ PlanAndCheck)
  \/ WildDeref
  \/ WriterNew
  \/ CopyRow
  \/ ScaleSetup
  \/ ScaleRow
  \/ Exit
  \/ MainReturn

SpecTool == InitTool /\ [][NextTool]_vars

(* ====================================================================== *)
(* Properties                                                             *)
(* ====================================================================== *)

Min(a, b) == IF a < b THEN a ELSE b
Max(a, b) == IF a > b THEN a ELSE b

(* The least n with n * b >= a. *)
CeilDiv(a, b) ==
  CHOOSE n \in (a \div b)..((a \div b) + 1) : n * b >= a /\ (n - 1) * b < a

RECURSIVE SeqSum(_)
SeqSum(sq) == IF sq = << >> THEN 0 ELSE Head(sq) + SeqSum(Tail(sq))

Count(sq, e) == Cardinality({i \in 1..Len(sq) : sq[i] = e})

W0 == jpeg.output_width
H0 == jpeg.output_height
CH0 == jpeg.output_components

(* The number of the read that fails (0: none); an error raised when the   *)
(* decompression is finished fails the last read.                          *)
FailRead == IF jpeg.fail_at = 0 THEN 0 ELSE Min(jpeg.fail_at, H0)

(* A call of the reader raised a libjpeg error and did not return: the     *)
(* process has ended inside sph_jpeg_error_exit.                           *)
CallLost == pc = "crash"

(* The input stream has a header libjpeg reads without error, dimensions   *)
(* in [1, MAXDIM] and one or three components.                             *)
OpensOK ==
  /\ ~jpeg.libj_err
  /\ W0 \in 1..SPH_JPEG_MAXDIM /\ H0 \in 1..SPH_JPEG_MAXDIM
  /\ CH0 \in {1, 3}

Is8x8RGB == OpensOK /\ W0 = 8 /\ H0 = 8 /\ CH0 = 3

WriterOpened == writer.height > 0

(* The s * s input samples of channel c under output pixel (ox, oy), with  *)
(* coordinates beyond the image replaced by the last column or row.        *)
WindowSamples(s, oy, ox, c) ==
  [k \in 1..(s * s) |->
     jpeg.rows[Min(oy * s + ((k - 1) \div s), H0 - 1) + 1]
              [Min(ox * s + ((k - 1) % s), W0 - 1) * CH0 + c + 1]]

BoxAverage(s, oy, ox, c) == SeqSum(WindowSamples(s, oy, ox, c)) \div (s * s)

Grid4x4 ==
  << <<10, 20, 30, 40>>, <<50, 60, 70, 80>>,
     <<90, 100, 110, 120>>, <<130, 140, 150, 160>> >>

(* Channel c of every pixel of an 8x8 RGB image. *)
AllOfChannel(c) ==
  [k \in 1..64 |-> jpeg.rows[((k - 1) \div 8) + 1][((k - 1) % 8) * 3 + c]]

(* C1: with s >= 2 every sample pushed to the writer is the truncated mean *)
(* of its s x s window of input samples, edge coordinates clamped to the   *)
(* last column and row; when all reads succeed ceil(H/s) scanlines are     *)
(* pushed; the 4x4 grid with s = 2 gives [35,55;115,135]; an 8x8 RGB image *)
(* with s = 8 gives the truncated per-channel mean of its 64 pixels.       *)
C1_BoxFilter ==
  (sval >= 2) =>
    /\ \A oy \in 1..Len(outRows) :
         /\ Len(outRows[oy]) = CeilDiv(W0, sval) * CH0
         /\ \A i \in 1..Len(outRows[oy]) :
              outRows[oy][i] =
                BoxAverage(sval, oy - 1, (i - 1) \div CH0, (i - 1) % CH0)
    /\ (pc = "done" /\ OpensOK /\ jpeg.fail_at = 0 /\ retval # ERR_CONSTRAINTS)
         => Len(outRows) = CeilDiv(H0, sval)
    /\ (pc = "done" /\ retval = SPH_JPEG_ERR_OK /\ sval = 2
          /\ OpensOK /\ jpeg.rows = Grid4x4)
         => outRows = << <<35, 55>>, <<115, 135>> >>
    /\ (pc = "done" /\ retval = SPH_JPEG_ERR_OK /\ Is8x8RGB /\ sval = 8)
         => outRows = << [c \in 1..3 |-> SeqSum(AllOfChannel(c)) \div 64] >>

C1_Witness ==
  /\ pc = "done" /\ sval = 2 /\ retval = SPH_JPEG_ERR_OK
  /\ OpensOK /\ jpeg.rows = Grid4x4
  /\ outRows = << <<35, 55>>, <<115, 135>> >>

(* C2: when the reader opened without error and the bounds are satisfied,  *)
(* the writer is opened with width ceil(W/s), height ceil(H/s) and the     *)
(* channel count of the input; for s = 1 these are W and H.                *)
C2_OutputDimensions ==
  /\ WriterOpened =>
       /\ OpensOK
       /\ writer.width = CeilDiv(W0, sval)
       /\ writer.height = CeilDiv(H0, sval)
       /\ writer.chcount = CH0
       /\ (sval = 1 => writer.width = W0 /\ writer.height = H0)
  /\ (pc = "done" /\ OpensOK /\ retval # ERR_CONSTRAINTS) => WriterOpened

C2_Witness ==
  /\ WriterOpened /\ sval = 2 /\ W0 = 5 /\ H0 = 3 /\ CH0 = 3
  /\ writer.width = 3 /\ writer.height = 2 /\ writer.chcount = 3

(* C3: with s = 1 the k-th scanline pushed is the k-th scanline the        *)
(* decoder delivered, exactly H scanlines are pushed when the request is   *)
(* not rejected and every read succeeds, and no padding, zeroing, mixing   *)
(* or averaging step runs.                                                 *)
C3_IdentityCopy ==
  (sval = 1) =>
    /\ Len(outRows) <= Len(inRows)
    /\ \A k \in 1..Len(outRows) :
         outRows[k] = jpeg.rows[k] /\ outRows[k] = inRows[k]
    /\ (pc = "done" /\ OpensOK /\ jpeg.fail_at = 0 /\ retval # ERR_CONSTRAINTS)
         => Len(outRows) = H0
    /\ \A i \in 1..Len(calls) :
         calls[i] \notin {"padscan", "zero", "mixscan", "avgblit"}
    /\ pAcc = << >> /\ pOutScan = << >>

C3_Witness ==
  /\ pc = "done" /\ sval = 1 /\ retval = SPH_JPEG_ERR_OK
  /\ H0 = 3 /\ W0 = 2 /\ CH0 = 3
  /\ outRows = jpeg.rows
  /\ outRows[1] # outRows[2]

(* The scanline the copy path pushes at position yy: the scanline the      *)
(* reader delivers there.                                                  *)
CopyPathRow(yy) == jpeg.rows[yy + 1]

(* C4: the stages of the windowed path applied with sval = 1 to a scanline *)
(* (zero the accumulator, mix, average) give that scanline unmodified, for *)
(* every scanline of every image: the scanlines they produce are those the *)
(* copy path pushes, in the same order.                                    *)
C4_WindowedIdentity ==
  /\ pc # "fault"
  /\ pc = "mix" =>
       /\ calls = << "zero" >>
       /\ \A i \in 1..out_samples : pAcc[i] = 0
  /\ pc = "mixed" =>
       /\ Len(pAcc) = Len(CopyPathRow(y))
       /\ \A i \in 1..Len(pAcc) : pAcc[i] = CopyPathRow(y)[i]
  /\ pc = "blitted" =>
       /\ calls = << "zero", "mixscan", "avgblit" >>
       /\ pOutScan = CopyPathRow(y)

C4_Witness ==
  /\ pc = "blitted"
  /\ calls = << "zero", "mixscan", "avgblit" >>
  /\ H0 = 3 /\ W0 = 4 /\ CH0 = 3 /\ y = 1
  /\ pOutScan = jpeg.rows[2]
  /\ pOutScan # jpeg.rows[1]

(* The quantity a bounds field limits. *)
Measured(f, w, h) ==
  CASE f = "max_long" -> Max(w, h)
    [] f = "max_short" -> Min(w, h)
    [] f = "max_width" -> w
    [] f = "max_height" -> h
    [] f = "max_pixels" -> w * h

(* Output dimensions w x h exceed a present bound of argument b. *)
Exceeds(b, w, h) ==
  /\ ~b.isNull
  /\ \E f \in BoundFields : b[f] >= 0 /\ Measured(f, w, h) > b[f]

Rejected == Exceeds(pBounds, CeilDiv(W0, sval), CeilDiv(H0, sval))

(* C5: for an image the reader accepts, jpegshrink returns -1 if and only  *)
(* if the output dimensions exceed a present bound (max_long against the   *)
(* larger, max_short against the smaller dimension, max_width, max_height, *)
(* max_pixels against width * height); never when every bound is unset.    *)
C5_RejectIffExceeded ==
  /\ (pc = "done" /\ OpensOK) => (retval = ERR_CONSTRAINTS <=> Rejected)
  /\ (OpensOK /\ pc \notin {"open", "plan"})
       => ((status = 0 /\ retval = ERR_CONSTRAINTS) <=> Rejected)
  /\ (\A f \in BoundFields : pBounds[f] < 0) => retval # ERR_CONSTRAINTS

C5_Witness ==
  /\ pc = "done" /\ retval = ERR_CONSTRAINTS
  /\ pBounds.max_short = 1 /\ pBounds.max_long < 0 /\ pBounds.max_width < 0
  /\ pBounds.max_height < 0 /\ pBounds.max_pixels < 0
  /\ out_width = 3 /\ out_height = 2

IOCalls == {"writer_new", "reader_get", "writer_put"}

(* C6: the constraint check runs at most once, after the reader is opened  *)
(* and before the writer is opened or any scanline is read or written; a   *)
(* rejected request never opens the writer, reads no scanline and writes   *)
(* none.                                                                   *)
C6_RejectBeforeIO ==
  /\ Count(calls, "check_bounds") <= 1
  /\ \A i \in 1..Len(calls) :
       /\ calls[i] = "check_bounds" =>
            /\ \E j \in 1..(i - 1) : calls[j] = "reader_new"
            /\ \A j \in 1..i : calls[j] \notin IOCalls
       /\ (calls[i] \in IOCalls /\ ~pBounds.isNull) =>
            \E j \in 1..(i - 1) : calls[j] = "check_bounds"
  /\ (retval = ERR_CONSTRAINTS \/ (OpensOK /\ Rejected)) =>
       /\ writer = NoWriter
       /\ pw = 0
       /\ outRows = << >>
       /\ inRows = << >>
       /\ reader.readcount = 0
       /\ \A i \in 1..Len(calls) : calls[i] \notin IOCalls

C6_Witness ==
  /\ pc = "done" /\ retval = ERR_CONSTRAINTS
  /\ pBounds.max_width = 3 /\ pBounds.max_long < 0
  /\ out_width = 4
  /\ outRows = << >> /\ writer = NoWriter

ReaderCodes ==
  {SPH_JPEG_ERR_OK, SPH_JPEG_ERR_LIBJ, SPH_JPEG_ERR_IDIM,
   SPH_JPEG_ERR_CCNT, SPH_JPEG_ERR_READ}

(* C7: if the reader fails to open the return value is the reader's status *)
(* and the bounds are not evaluated; -1 is returned exactly when the       *)
(* reader opened and a bound is exceeded; reader codes are never -1; a     *)
(* read failure after the bounds passed returns the reader's code.  A run  *)
(* on a stream that fails to open or fails in a read therefore comes back  *)
(* from the reader and goes on to the return.                              *)
C7_ErrorPriority ==
  /\ reader.status \in ReaderCodes
  /\ ERR_CONSTRAINTS \notin ReaderCodes
  /\ retval \in ReaderCodes \cup {ERR_CONSTRAINTS}
  /\ (pc = "done" /\ ~OpensOK) =>
       /\ retval = reader.status
       /\ retval \in {SPH_JPEG_ERR_LIBJ, SPH_JPEG_ERR_IDIM, SPH_JPEG_ERR_CCNT}
       /\ Count(calls, "check_bounds") = 0
  /\ (pc = "done" /\ retval = ERR_CONSTRAINTS) => (OpensOK /\ Rejected)
  /\ (pc = "done" /\ OpensOK /\ Rejected) => retval = ERR_CONSTRAINTS
  /\ (pc = "done" /\ OpensOK /\ ~Rejected /\ jpeg.fail_at # 0) =>
       /\ retval = SPH_JPEG_ERR_READ
       /\ retval = reader.status
  /\ ~OpensOK => ~CallLost
  /\ (OpensOK /\ ~Rejected /\ jpeg.fail_at # 0) => ~CallLost

(* The position of the last reader_get in the call history (0 if none). *)
LastGet ==
  IF \E i \in 1..Len(calls) : calls[i] = "reader_get"
  THEN CHOOSE i \in 1..Len(calls) :
         /\ calls[i] = "reader_get"
         /\ \A j \in (i + 1)..Len(calls) : calls[j] # "reader_get"
  ELSE 0

(* The read that libjpeg fails has been called. *)
FailedGet == FailRead > 0 /\ Count(calls, "reader_get") >= FailRead

(* C8: after the first failed read there is no further read, no padding,   *)
(* zeroing, mixing or averaging and no further write, the failing row      *)
(* included, on both paths; the return value is the reader's status.       *)
C8_ReadFailureAborts ==
  FailedGet =>
    /\ reader.status = SPH_JPEG_ERR_READ
    /\ pc \in {"exit", "done"}
    /\ status = 0
    /\ \A i \in (LastGet + 1)..Len(calls) :
         calls[i] \in {"reader_status", "reader_free", "writer_free"}
    /\ Count(calls, "reader_get") = reader.readcount
    /\ Count(calls, "writer_put") = Len(outRows)
    /\ Len(outRows) = (reader.readcount - 1) \div sval
    /\ Len(inRows) = reader.readcount - 1
    /\ pc = "done" => retval = SPH_JPEG_ERR_READ

(* C9: jpegshrink returns OK if and only if the writer received all its    *)
(* out_height scanlines and finalized the stream; on a non-OK return the   *)
(* writer was never opened or received fewer than out_height scanlines.    *)
C9_CompleteIffOK ==
  /\ writer.written <= writer.height
  /\ writer.written = Len(outRows)
  /\ writer.finished = (IF WriterOpened /\ writer.written = writer.height
                        THEN 1 ELSE 0)
  /\ pc = "done" =>
       /\ (retval = SPH_JPEG_ERR_OK) <=>
            (WriterOpened /\ writer.written = writer.height
               /\ writer.height = out_height /\ writer.finished = 1)
       /\ (retval # SPH_JPEG_ERR_OK) =>
            (~WriterOpened \/ writer.written < writer.height)
  /\ CallLost => (~WriterOpened \/ writer.written < writer.height)

C9_Witness ==
  /\ pc = "done" /\ retval = SPH_JPEG_ERR_OK /\ sval = 2 /\ H0 = 4
  /\ WriterOpened /\ writer.written = 2 /\ writer.height = 2
  /\ writer.finished = 1

(* C10: on every exit path, that of a failed open and that of a failed     *)
(* read included, the reader is released exactly once, the writer exactly  *)
(* once if it was opened (releasing an unopened writer changes nothing),   *)
(* and no reader or writer call follows the release: where a run ends, the *)
(* two releases are its last calls.                                        *)
C10_ReleaseOnce ==
  /\ reader.freed <= 1 /\ writer.freed <= 1
  /\ pc \notin {"done", "crash"} =>
       /\ reader.freed = 0 /\ writer.freed = 0
       /\ Count(calls, "reader_free") = 0 /\ Count(calls, "writer_free") = 0
  /\ pc \in {"done", "crash"} =>
       /\ reader.freed = 1
       /\ writer.freed = (IF WriterOpened THEN 1 ELSE 0)
       /\ (~WriterOpened => writer = NoWriter)
       /\ Count(calls, "reader_free") = 1 /\ Count(calls, "writer_free") = 1
       /\ calls[Len(calls) - 1] = "reader_free"
       /\ calls[Len(calls)] = "writer_free"
       /\ pr = 0 /\ pw = 0

OpenErrors == {SPH_JPEG_ERR_LIBJ, SPH_JPEG_ERR_IDIM, SPH_JPEG_ERR_CCNT}

(* C11: once the reader's status is not OK it keeps that same code for     *)
(* ever, and a sph_jpeg_reader_get on such a reader does not invoke the    *)
(* decoder and does not return success.                                    *)
C11_ErrorLatch ==
  [][ (reader.status # SPH_JPEG_ERR_OK) =>
        /\ reader'.status = reader.status
        /\ reader'.output_scanline = reader.output_scanline
        /\ reader'.finished = reader.finished
        /\ Count(calls', "jpeg_read_scanlines")
             = Count(calls, "jpeg_read_scanlines")
        /\ inRows' = inRows
        /\ (Count(calls', "reader_get") # Count(calls, "reader_get"))
             => (pc' = "fault" \/ (status' = 0 /\ pc' = "r_use")) ]_vars

C11_Witness ==
  /\ pc = "r_use" /\ reader.status = SPH_JPEG_ERR_CCNT /\ status = 0
  /\ CH0 = 4 /\ H0 = 2
  /\ reader.readcount = 1
  /\ calls = << "reader_new", "reader_get" >>
  /\ inRows = << >>

(* C12: sph_jpeg_reader_get can be called height times and the next call   *)
(* faults; every call that does not fault increments the counter, whether  *)
(* it succeeds or fails, and the limit is tested before the error status,  *)
(* so a reader in an error state faults on call height + 1 (the second     *)
(* call when the open failed, the height then being 1).                    *)
C12_ReadLimit ==
  /\ [](reader.readcount <= reader.height)
  /\ [](reader.status \in OpenErrors => reader.height = 1)
  /\ []((pc = "fault") <=> (Count(calls, "reader_get") = reader.height + 1))
  /\ []((pc # "fault") => (Count(calls, "reader_get") = reader.readcount))
  /\ [][ (Count(calls', "reader_get") # Count(calls, "reader_get")) =>
           IF reader.readcount >= reader.height
           THEN pc' = "fault" /\ reader' = reader
           ELSE pc' # "fault" /\ reader'.readcount = reader.readcount + 1 ]_vars

C12_Witness ==
  /\ pc = "fault" /\ reader.status = SPH_JPEG_ERR_IDIM
  /\ reader.height = 1 /\ reader.readcount = 1
  /\ Count(calls, "reader_get") = 2

(* C13: the writer finishes the stream exactly once, in the height-th      *)
(* sph_jpeg_writer_put and nowhere else; a put after height scanlines      *)
(* faults; releasing the writer after fewer scanlines never finishes it.   *)
C13_FinishOnLastPut ==
  /\ [](writer.finished <= 1 /\ writer.written <= writer.height)
  /\ []((writer.finished = 1) <=>
          (WriterOpened /\ writer.written = writer.height))
  /\ [][ (writer'.finished # writer.finished) =>
           /\ Count(calls', "writer_put") = Count(calls, "writer_put") + 1
           /\ writer'.written = writer.written + 1
           /\ writer'.written = writer.height
           /\ writer.finished = 0 /\ writer'.finished = 1 ]_vars
  /\ [][ (Count(calls', "writer_put") # Count(calls, "writer_put")) =>
           IF writer.written >= writer.height
           THEN pc' = "fault" /\ writer' = writer
           ELSE pc' # "fault" /\ writer'.written = writer.written + 1 ]_vars
  /\ [][ (writer'.freed # writer.freed) =>
           writer'.finished = writer.finished ]_vars

C13_Witness ==
  /\ pc = "w_use" /\ writer.height = 3 /\ writer.written = 3
  /\ writer.finished = 1 /\ Len(outRows) = 3

(* The samples of channel c of the first n scanlines of the window of      *)
(* output pixel (ox, oy), edge coordinates clamped: n * s samples.         *)
PartialWindow(s, oy, ox, c, n) ==
  [k \in 1..(n * s) |->
     jpeg.rows[Min(oy * s + ((k - 1) \div s), H0 - 1) + 1]
              [Min(ox * s + ((k - 1) % s), W0 - 1) * CH0 + c + 1]]

(* C14: the accumulator never overflows: every entry is the exact sum of   *)
(* the samples mixed into it since it was zeroed, at most s*s*255 and at   *)
(* most 65535 for every s up to 16; 16 is the largest such s.              *)
C14_AccumulatorFits ==
  /\ sval \in 1..JPEGSHRINK_MAXSHRINK
  /\ JPEGSHRINK_MAXSHRINK * JPEGSHRINK_MAXSHRINK * 255 <= UINT16_MOD - 1
  /\ (JPEGSHRINK_MAXSHRINK + 1) * (JPEGSHRINK_MAXSHRINK + 1) * 255
       > UINT16_MOD - 1
  /\ \A i \in 1..Len(pAcc) :
       pAcc[i] >= 0 /\ pAcc[i] <= sval * sval * 255
         /\ pAcc[i] <= UINT16_MOD - 1
  /\ (pc \in {"scale", "exit"} /\ status = 1 /\ y >= 1 /\ sval >= 2) =>
       LET n == IF y % sval = 0 THEN sval ELSE y % sval
           oy == (y - 1) \div sval
       IN \A i \in 1..Len(pAcc) :
            pAcc[i] = SeqSum(PartialWindow(sval, oy, (i - 1) \div CH0,
                                           (i - 1) % CH0, n))

C14_Witness ==
  /\ pc = "exit" /\ status = 1 /\ sval = JPEGSHRINK_MAXSHRINK
  /\ W0 = 16 /\ H0 = 16
  /\ pAcc = << 65280 >>
  /\ outRows = << << 255 >> >>

ReaderOpenedOK == pr = 1 /\ reader.status = SPH_JPEG_ERR_OK

(* C15 as stated: for every accepted width, height and channel count,      *)
(* width * height * channel_count fits a signed 32-bit integer.            *)
C15_TripleProductFits ==
  ReaderOpenedOK =>
    reader.width * reader.height <= INT32_MAX \div reader.chcount

(* C15 amended: for every accepted descriptor the pixel count width *      *)
(* height is at most 1,024,000,000 and fits a signed 32-bit integer, as    *)
(* does the scanline size width * channel_count (at most 96,000); the      *)
(* product width * height * channel_count fits when the channel count is   *)
(* 1.                                                                      *)
C15_PixelCountFits ==
  ReaderOpenedOK =>
    /\ reader.width \in 1..SPH_JPEG_MAXDIM
    /\ reader.height \in 1..SPH_JPEG_MAXDIM
    /\ reader.chcount \in {1, 3}
    /\ reader.width <= INT32_MAX \div reader.height
    /\ reader.width * reader.height <= 1024000000
    /\ reader.width * reader.chcount <= 96000
    /\ (reader.chcount = 1 =>
          reader.width * reader.height * reader.chcount <= INT32_MAX)

C15_Witness ==
  /\ ReaderOpenedOK
  /\ reader.width = SPH_JPEG_MAXDIM /\ reader.height = SPH_JPEG_MAXDIM
  /\ reader.chcount = 3
  /\ reader.width * reader.height > INT32_MAX \div 3

(* No bound is passed: NULL, or a structure with -1 in all five fields. *)
AllMinusOne == \A f \in BoundFields : pBounds[f] = -1
Unconstrained == pBounds.isNull \/ AllMinusOne

(* The vertical positions the transfer loop visits when nothing fails. *)
LoopLength == IF sval <= 1 THEN H0 ELSE CeilDiv(H0, sval) * sval

(* The calls of one loop iteration at position yy that does not fail. *)
RowCalls(yy) ==
  IF sval <= 1 THEN << "reader_get", "writer_put" >>
  ELSE (IF yy < H0 THEN << "reader_get", "padscan" >> ELSE << >>)
       \o (IF yy % sval = 0 THEN << "zero" >> ELSE << >>)
       \o << "mixscan" >>
       \o (IF yy % sval = sval - 1 THEN << "avgblit", "writer_put" >>
           ELSE << >>)

RECURSIVE LoopCalls(_)
LoopCalls(n) == IF n = 0 THEN << >> ELSE LoopCalls(n - 1) \o RowCalls(n - 1)

(* The reader, writer and stage calls of a complete run without            *)
(* constraints, from the input stream and the scaling value alone.         *)
UnconstrainedCalls ==
  << "reader_new", "reader_status" >>
  \o (IF ~OpensOK THEN << "reader_status" >>
      ELSE << "writer_new" >>
           \o (IF FailRead = 0 THEN LoopCalls(LoopLength)
               ELSE LoopCalls(FailRead - 1)
                    \o << "reader_get", "reader_status" >>))
  \o << "reader_free", "writer_free" >>

UnconstrainedReturn ==
  IF ~OpensOK THEN reader.status
  ELSE IF FailRead > 0 THEN SPH_JPEG_ERR_READ
  ELSE SPH_JPEG_ERR_OK

(* The call history without the evaluation of the constraints. *)
IOHistory == SelectSeq(calls, LAMBDA e : e # "check_bounds")

(* C16: with pBounds = NULL and with all five bounds -1 the return value   *)
(* and the sequence of reader, writer and stage calls are the same (they   *)
(* are determined by the stream and the scaling value), and the return     *)
(* value is never -1.                                                      *)
C16_NullIsAllUnset ==
  Unconstrained =>
    /\ retval # ERR_CONSTRAINTS
    /\ Len(IOHistory) <= Len(UnconstrainedCalls)
    /\ IOHistory = SubSeq(UnconstrainedCalls, 1, Len(IOHistory))
    /\ pc = "done" =>
         /\ IOHistory = UnconstrainedCalls
         /\ retval = UnconstrainedReturn
    /\ Count(calls, "check_bounds") <= (IF pBounds.isNull THEN 0 ELSE 1)

C16_Witness ==
  /\ pc = "done" /\ ~pBounds.isNull /\ AllMinusOne
  /\ Count(calls, "check_bounds") = 1
  /\ retval = SPH_JPEG_ERR_OK /\ sval = 2 /\ H0 = 3
  /\ Len(outRows) = 2

(* The input opens and both of its dimensions are multiples of sval. *)
ExactMultiple == OpensOK /\ W0 % sval = 0 /\ H0 % sval = 0

(* The general path has allocated its buffers and computed its padding. *)
GeneralSetUp == sval >= 2 /\ pAcc # << >> /\ pc \in {"scale", "exit", "fault"}

(* C17: when width and height are multiples of s, the output is width/s by *)
(* height/s, the pad count is 0 and each padded scanline is the scanline   *)
(* as read, and the padded height is the input height, so that every       *)
(* mixed scanline was read at its own position.                            *)
C17_ExactMultiple ==
  (ExactMultiple /\ pc \notin {"open", "plan"}) =>
    /\ out_width = W0 \div sval /\ out_width * sval = W0
    /\ out_height = H0 \div sval /\ out_height * sval = H0
    /\ WriterOpened =>
         /\ writer.width = W0 \div sval
         /\ writer.height = H0 \div sval
    /\ GeneralSetUp =>
         /\ pad_count = 0
         /\ pad_height = in_height /\ in_height = H0
         /\ y <= H0
         /\ Count(calls, "mixscan") <= Count(calls, "reader_get")
         /\ Count(calls, "mixscan") = Len(inRows)
         /\ Len(pInScan) = W0 * CH0
         /\ (status = 1 /\ y >= 1) =>
              /\ Count(calls, "padscan") = y
              /\ pInScan = jpeg.rows[y]
              /\ pInScan = inRows[Len(inRows)]

C17_Witness ==
  /\ pc = "exit" /\ status = 1 /\ sval = 2 /\ W0 = 4 /\ H0 = 4 /\ CH0 = 3
  /\ pad_count = 0 /\ pad_height = 4 /\ y = 4
  /\ Len(outRows) = 2 /\ Len(outRows[1]) = 6
  /\ Count(calls, "padscan") = 4
  /\ pInScan = jpeg.rows[4]

(* The last scanline of the image followed by copies of its last pixel up  *)
(* to the padded width.                                                    *)
PaddedLastRow ==
  [k \in 1..(out_width * sval * chcount) |->
     jpeg.rows[H0][Min((k - 1) \div chcount, W0 - 1) * chcount
                   + ((k - 1) % chcount) + 1]]

(* The calls of an iteration at a position below the image. *)
PaddingRowCalls ==
  (IF y % sval = 0 THEN << "zero" >> ELSE << >>)
  \o << "mixscan" >>
  \o (IF y % sval >= sval - 1 THEN << "avgblit", "writer_put" >> ELSE << >>)

Gray5x3Grid ==
  << <<10, 20, 30, 40, 50>>, <<50, 60, 70, 80, 90>>,
     <<90, 100, 110, 120, 130>> >>

(* C18: an iteration at a position y with H <= y < padded height reads     *)
(* nothing, pads nothing and leaves the scanline buffer as it is, and the  *)
(* buffer it mixes is the horizontally padded last scanline of the image;  *)
(* the 5x3 grayscale grid with s = 2 gives the rows 35,55,70 and           *)
(* 95,115,130.                                                             *)
C18_VerticalPadding ==
  /\ [][ (pc = "scale" /\ y >= in_height) =>
           /\ pInScan' = pInScan
           /\ reader' = reader
           /\ inRows' = inRows
           /\ calls' = calls \o PaddingRowCalls
           /\ y' = y + 1
           /\ pc' \in {"scale", "exit"} ]_vars
  /\ [] ((GeneralSetUp /\ status = 1 /\ y >= in_height) =>
           /\ y < pad_height \/ pc = "exit"
           /\ pInScan = PaddedLastRow
           /\ reader.readcount = H0
           /\ Count(calls, "reader_get") = H0
           /\ Count(calls, "padscan") = H0)
  /\ [] ((jpeg.rows = Gray5x3Grid /\ jpeg.fail_at = 0 /\ sval = 2
            /\ pc = "done" /\ retval = SPH_JPEG_ERR_OK) =>
           outRows = << <<35, 55, 70>>, <<95, 115, 130>> >>)

C18_Witness ==
  /\ pc = "exit" /\ status = 1 /\ sval = 2
  /\ jpeg.rows = Gray5x3Grid
  /\ y = 4 /\ in_height = 3 /\ pad_height = 4 /\ pad_count = 1
  /\ pInScan = <<90, 100, 110, 120, 130, 130>>
  /\ Count(calls, "reader_get") = 3 /\ Count(calls, "mixscan") = 4
  /\ outRows = << <<35, 55, 70>>, <<95, 115, 130>> >>

(* The number of scanlines requested from the reader so far. *)
Requested == Count(calls, "reader_get")

(* C19: a scanline is requested only directly after the previous one was   *)
(* mixed or written, a step requests at most one scanline and only at a    *)
(* position y < H that no earlier request was made for, and the requests   *)
(* number at most H, exactly H when jpegshrink succeeds.                   *)
C19_SinglePass ==
  /\ [] (\A j \in 2..Len(calls) :
           (calls[j] = "reader_get" /\ calls[j - 1] # "writer_new") =>
              calls[j - 1] \in {"mixscan", "writer_put"})
  /\ [] (Count(calls, "writer_new") <= 1 /\ pc # "fault")
  /\ [] (OpensOK => (Requested <= H0 /\ Requested = reader.readcount))
  /\ [] (~OpensOK => Requested = 0)
  /\ [] ((pc \in {"copy", "scale", "exit"} /\ status = 1 /\ WriterOpened) =>
           /\ Requested = Min(y, H0)
           /\ Count(calls, IF sval <= 1 THEN "writer_put" ELSE "mixscan") = y)
  /\ [] ((pc = "done" /\ retval = SPH_JPEG_ERR_OK) => Requested = H0)
  /\ [][ /\ Count(calls', "reader_get") <= Requested + 1
         /\ Count(calls', "reader_get") = Requested + 1 =>
              /\ y < in_height /\ Requested = y
              /\ y' = y + 1 \/ status' = 0 \/ CallLost' ]_vars

C19_Witness ==
  /\ pc = "done" /\ retval = SPH_JPEG_ERR_OK /\ sval = 2 /\ H0 = 3
  /\ Requested = 3 /\ Count(calls, "mixscan") = 4
  /\ SubSeq(calls, 4, 10)
       = << "reader_get", "padscan", "zero", "mixscan",
            "reader_get", "padscan", "mixscan" >>

(* C20: when the reader fails to open, jpegshrink computes no output       *)
(* dimensions, evaluates no constraint, opens no writer, allocates no      *)
(* buffer, requests no scanline, writes nothing, and returns the status    *)
(* of the reader.                                                          *)
C20_OpenFailure ==
  (~OpensOK /\ pc # "open") =>
    /\ reader.status \in OpenErrors
    /\ status = 0
    /\ pc \in {"exit", "done"}
    /\ out_width = 0 /\ out_height = 0 /\ out_samples = 0
    /\ pad_height = 0 /\ pad_count = 0
    /\ Count(calls, "check_bounds") = 0
    /\ writer = NoWriter /\ pw = 0 /\ Count(calls, "writer_new") = 0
    /\ pInScan = << >> /\ pAcc = << >> /\ pOutScan = << >>
    /\ reader.readcount = 0 /\ Count(calls, "reader_get") = 0
    /\ inRows = << >> /\ outRows = << >>
    /\ Count(calls, "writer_put") = 0
    /\ \A i \in 1..Len(calls) :
         calls[i] \in {"reader_new", "reader_status", "reader_free",
                       "writer_free"}
    /\ pc = "done" => (retval = reader.status /\ retval # ERR_CONSTRAINTS)

(* The step is a call of sph_jpeg_reader_get that passed the state check. *)
GetCalled ==
  /\ Count(calls', "reader_get") = Count(calls, "reader_get") + 1
  /\ pc' # "fault"

(* C21: a sph_jpeg_reader_get on a reader in an error state, or whose       *)
(* decode fails, returns to its caller with 0 and leaves the first width * *)
(* channels bytes of the scanline buffer zero; it returns 0 exactly when   *)
(* the reader's status afterwards is not OK.                               *)
C21_FailedGetBlanks ==
  [][ GetCalled =>
        /\ pc' = "r_use"
        /\ status' \in {0, 1}
        /\ (status' = 0) <=> (reader'.status # SPH_JPEG_ERR_OK)
        /\ (reader.status # SPH_JPEG_ERR_OK
              \/ reader'.status # reader.status) => status' = 0
        /\ status' = 0 =>
             /\ Len(pInScan') = Len(pInScan)
             /\ Len(pInScan') >= reader.width * reader.chcount
             /\ \A i \in 1..(reader.width * reader.chcount) : pInScan'[i] = 0
             /\ inRows' = inRows
        /\ status' = 1 => pInScan' = jpeg.rows[reader'.output_scanline] ]_vars

(* C22: the width, height and channel count of a reader are those set by   *)
(* sph_jpeg_reader_new and no sph_jpeg_reader_get, successful or failed,   *)
(* changes them; width and height are in 1..32000, the channel count is 1  *)
(* or 3, and all three are 1 when the open failed.                         *)
C22_DescriptorFixed ==
  /\ [] (pr = 1 =>
           /\ reader.width \in 1..SPH_JPEG_MAXDIM
           /\ reader.height \in 1..SPH_JPEG_MAXDIM
           /\ reader.chcount \in {1, 3}
           /\ reader.width = sph_jpeg_reader_new(jpeg).width
           /\ reader.height = sph_jpeg_reader_new(jpeg).height
           /\ reader.chcount = sph_jpeg_reader_new(jpeg).chcount
           /\ IF OpensOK
              THEN /\ reader.width = W0 /\ reader.height = H0
                   /\ reader.chcount = CH0
                   /\ reader.status = SPH_JPEG_ERR_OK
              ELSE /\ reader.width = 1 /\ reader.height = 1
                   /\ reader.chcount = 1
                   /\ reader.status \in OpenErrors)
  /\ [][ (pr = 1 /\ pr' = 1) =>
           /\ reader'.width = reader.width
           /\ reader'.height = reader.height
           /\ reader'.chcount = reader.chcount ]_vars

C22_Witness ==
  /\ pc = "r_use" /\ pr = 1
  /\ reader.status = SPH_JPEG_ERR_OK /\ reader.readcount = 3
  /\ reader.width = 5 /\ reader.height = 4 /\ reader.chcount = 3
  /\ Count(calls, "jpeg_read_scanlines") = 3

(* C23: jpegshrink hands its quality argument to the writer as it is, and  *)
(* the writer uses the nearest value in 25..90: 25 for a request below 25, *)
(* 90 for a request above 90, the request itself otherwise.                *)
C23_QualityClamped ==
  /\ [][q' = q]_vars
  /\ [] (WriterOpened =>
           /\ writer.quality = Max(25, Min(90, q))
           /\ writer.quality \in 25..90
           /\ q \in 25..90 => writer.quality = q
           /\ q < 25 => writer.quality = SPH_JPEG_MINQ
           /\ q > 90 => writer.quality = SPH_JPEG_MAXQ
           /\ \A e \in 25..90 :
                (IF e > q THEN e - q ELSE q - e)
                  >= (IF writer.quality > q THEN writer.quality - q
                      ELSE q - writer.quality))
  /\ [] (~WriterOpened => writer.quality = 0)

C23_Witness ==
  /\ pc = "done" /\ retval = SPH_JPEG_ERR_OK
  /\ q = 100 /\ writer.quality = 90 /\ sval = 2
  /\ outRows = << <<35>> >>

(* The padded width of the input in pixels, from the stream and sval. *)
PaddedWidth == IF sval <= 1 THEN W0 ELSE CeilDiv(W0, sval) * sval

(* C24: the image data held during a shrink is one scanline buffer of      *)
(* out_width * s * channels bytes and, in the general path, one            *)
(* accumulator and one output scanline of out_width * channels entries;    *)
(* their sizes depend on the width, s and the channel count only and no    *)
(* iteration of either loop changes them.                                  *)
C24_HeightIndependent ==
  /\ [] ((pw = 1 /\ pc # "done") =>
           /\ Len(pInScan) = out_width * sval * chcount
           /\ Len(pInScan) = PaddedWidth * CH0)
  /\ [] (GeneralSetUp =>
           /\ Len(pAcc) = out_width * chcount
           /\ Len(pAcc) = (PaddedWidth \div sval) * CH0
           /\ Len(pOutScan) = Len(pAcc)
           /\ \A i \in 1..Len(pAcc) : pAcc[i] \in 0..(UINT16_MOD - 1)
           /\ \A i \in 1..Len(pOutScan) : pOutScan[i] \in 0..255)
  /\ [] ((sval <= 1 \/ pw = 0) => (pAcc = << >> /\ pOutScan = << >>))
  /\ [] (pw = 0 => pInScan = << >>)
  /\ [][ (pc \in {"copy", "scale"}) =>
           (/\ Len(pInScan') = Len(pInScan)
            /\ Len(pAcc') = Len(pAcc)
            /\ Len(pOutScan') = Len(pOutScan)) ]_vars

C24_Witness ==
  /\ pc = "scale" /\ sval = 2 /\ W0 = 5 /\ H0 = 4 /\ CH0 = 3 /\ y = 3
  /\ Len(pInScan) = 18 /\ Len(pAcc) = 9 /\ Len(pOutScan) = 9
  /\ Len(inRows) = 3

(* C25: the identity shrink of an image produces the scanline sequence of  *)
(* that image, and the identity shrink applied to a stream that delivers   *)
(* the sequence so produced yields the scanlines of the image again, with  *)
(* the same width, height and channel count.                               *)
C25_IdentityTwice ==
  /\ (original = << >> /\ pc = "done" /\ retval = SPH_JPEG_ERR_OK) =>
       outRows = jpeg.rows
  /\ (original # << >> /\ pc = "done" /\ retval = SPH_JPEG_ERR_OK) =>
    /\ outRows = original
    /\ jpeg.rows = original
    /\ writer.width = Len(original[1]) \div writer.chcount
    /\ writer.height = Len(original)
    /\ writer.chcount = CH0

C25_Witness ==
  /\ original = << <<10, 20, 30>>, <<50, 60, 70>> >>
  /\ pc = "done" /\ retval = SPH_JPEG_ERR_OK
  /\ outRows = << <<10, 20, 30>>, <<50, 60, 70>> >>
  /\ writer.width = 3 /\ writer.finished = 1

(* The number of entries e of the history after position i. *)
CountSince(i, e) ==
  Cardinality({k \in (i + 1)..Len(calls) : calls[k] = e})

(* The position of the last entry e of the history before position i,      *)
(* 0 when there is none.                                                   *)
LastBefore(i, e) ==
  IF \E k \in 1..(i - 1) : calls[k] = e
  THEN CHOOSE k \in 1..(i - 1) :
         calls[k] = e /\ \A m \in (k + 1)..(i - 1) : calls[m] # e
  ELSE 0

(* The history of the step is the history before it followed by tl. *)
Appended(tl) == calls' = calls \o tl

(* C26: in the general path an iteration zeroes the accumulator exactly    *)
(* when y mod s = 0 and averages and pushes exactly when y mod s = s - 1;  *)
(* every push comes after exactly s mixes since the last zeroing, with no  *)
(* other push in between, the accumulator holds the mixes of one window    *)
(* only, and after position y the pushes number (y + 1) div s.             *)
C26_WindowCadence ==
  /\ [][ (pc = "scale" /\ status' = 1 /\ pc' # "fault" /\ ~CallLost') =>
           /\ (\E tl \in {<< "zero", "mixscan" >>,
                          << "zero", "mixscan", "avgblit", "writer_put" >>,
                          << "reader_get", "padscan", "zero", "mixscan" >>,
                          << "reader_get", "padscan", "zero", "mixscan",
                             "avgblit", "writer_put" >>} : Appended(tl))
                <=> (y % sval = 0)
           /\ (Len(outRows') = Len(outRows) + 1) <=> (y % sval = sval - 1)
           /\ (Count(calls', "avgblit") = Count(calls, "avgblit") + 1)
                <=> (y % sval = sval - 1)
           /\ Len(outRows') \in {Len(outRows), Len(outRows) + 1}
           /\ Count(calls', "mixscan") = Count(calls, "mixscan") + 1
           /\ y' = y + 1
           /\ Len(outRows') = (y + 1) \div sval ]_vars
  /\ [] ((GeneralSetUp /\ status = 1) =>
           /\ Len(outRows) = y \div sval
           /\ Count(calls, "writer_put") = y \div sval
           /\ Count(calls, "avgblit") = y \div sval
           /\ Count(calls, "zero") = CeilDiv(y, sval)
           /\ Count(calls, "mixscan") = y
           /\ y >= 1 =>
                CountSince(LastBefore(Len(calls) + 1, "zero"), "mixscan")
                  = (IF y % sval = 0 THEN sval ELSE y % sval)
           /\ \A i \in 1..Len(calls) :
                calls[i] = "writer_put" =>
                  LET z == LastBefore(i, "zero")
                  IN /\ z > 0
                     /\ calls[i - 1] = "avgblit"
                     /\ Cardinality({k \in (z + 1)..(i - 1) :
                                       calls[k] = "mixscan"}) = sval
                     /\ \A k \in (z + 1)..(i - 1) : calls[k] # "writer_put")

C26_Witness ==
  /\ pc = "exit" /\ status = 1 /\ sval = 3 /\ H0 = 4 /\ y = 6
  /\ Len(outRows) = 2
  /\ Count(calls, "zero") = 2 /\ Count(calls, "mixscan") = 6
  /\ Count(calls, "reader_get") = 4

(* The sum of channel c over the s pixels k*s .. k*s + s - 1 of a          *)
(* scanline: explicit window partitioning.                                 *)
WindowSum(scan, k, c, s, ch) ==
  SeqSum([t \in 1..s |-> scan[(k * s + (t - 1)) * ch + c + 1]])

(* C27: one call of the mixing stage adds to slot k, channel c, the sum of *)
(* channel c over pixels k*s .. k*s + s - 1 of the padded scanline for     *)
(* every k below out_width and changes nothing else; the walking pointers  *)
(* give what explicit window partitioning gives, for 1 and 3 channels and  *)
(* every s from 1.                                                         *)
C27_MixIsWindowSum ==
  [][ (pc = "mix") =>
        IF sval \in 1..16 /\ chcount \in {1, 3}
        THEN /\ pc' = "mixed"
             /\ Len(pAcc') = Len(pAcc)
             /\ \A k \in 0..(out_width - 1) : \A c \in 0..(chcount - 1) :
                  pAcc'[k * chcount + c + 1]
                    = pAcc[k * chcount + c + 1]
                        + WindowSum(pInScan, k, c, sval, chcount)
             /\ \A i \in (out_width * chcount + 1)..Len(pAcc) :
                  pAcc'[i] = pAcc[i]
             /\ pInScan' = pInScan
        ELSE pc' = "fault" /\ pAcc' = pAcc ]_vars

C27_Witness ==
  /\ pc = "mixed" /\ sval = 3 /\ chcount = 3 /\ out_width = 2
  /\ pInScan[1] = 10 /\ pInScan[4] = 20
  /\ pAcc[5] = 650 /\ pAcc[7] = 700

(* C28: the pad count out_width * s - W lies in 0..s-1, so that the padded *)
(* dimensions are not below the input dimensions; the padding stage        *)
(* leaves pixels 0..W-1 as read, gives every sample of pixels W ..         *)
(* W + pad_count - 1 the value of that sample of pixel W-1, and pixel      *)
(* W + pad_count - 1 is the last pixel of the buffer of out_width * s      *)
(* pixels.                                                                 *)
C28_PaddingFrame ==
  /\ [] ((OpensOK /\ pc \notin {"open", "plan"}) =>
           /\ out_width * sval >= W0
           /\ out_width * sval - W0 <= Max(sval - 1, 0)
           /\ out_height * sval >= H0
           /\ out_height * sval - H0 <= Max(sval - 1, 0))
  /\ [] (GeneralSetUp =>
           /\ pad_count = out_width * sval - in_width
           /\ pad_count \in 0..(sval - 1)
           /\ ~padscan_faults(in_width, pad_count, chcount)
           /\ Len(pInScan) = out_width * sval * chcount
           /\ (in_width + pad_count) * chcount = Len(pInScan))
  /\ [][ (pc = "scale"
            /\ Count(calls', "padscan") = Count(calls, "padscan") + 1) =>
           (/\ Len(pInScan') = Len(pInScan)
            /\ \A x \in 0..(in_width - 1) : \A c \in 1..chcount :
                 pInScan'[x * chcount + c] = jpeg.rows[y + 1][x * chcount + c]
            /\ \A x \in in_width..(in_width + pad_count - 1) :
                 \A c \in 1..chcount :
                   /\ x * chcount + c <= Len(pInScan)
                   /\ pInScan'[x * chcount + c]
                        = pInScan'[(in_width - 1) * chcount + c]) ]_vars

C28_Witness ==
  /\ pc = "scale" /\ sval = 3 /\ W0 = 4 /\ CH0 = 1 /\ y = 2
  /\ pad_count = 2 /\ out_width = 2
  /\ pInScan = << 50, 60, 70, 80, 80, 80 >>
  /\ Count(calls, "padscan") = 2

(* A bounds structure is passed in which some bound is 0. *)
ZeroBound == ~pBounds.isNull /\ \E f \in BoundFields : pBounds[f] = 0

(* A bounds structure is passed in which every bound is negative. *)
AllNegative == ~pBounds.isNull /\ \A f \in BoundFields : pBounds[f] < 0

(* C29: every negative bound, not only -1, leaves its quantity             *)
(* unconstrained, and a bound of 0 on any field rejects every image the    *)
(* reader accepts, every output dimension and pixel count being at least   *)
(* 1.                                                                      *)
C29_NegativeAndZeroBounds ==
  /\ AllNegative =>
       /\ retval # ERR_CONSTRAINTS
       /\ (OpensOK /\ pc \notin {"open", "plan"}) => status = 1 \/ pw = 1
                                                       \/ WriterOpened
       /\ pc = "done" =>
            /\ IOHistory = UnconstrainedCalls
            /\ retval = UnconstrainedReturn
  /\ (OpensOK /\ pc \notin {"open", "plan"}) =>
       /\ out_width >= 1 /\ out_height >= 1
       /\ \A f \in BoundFields : Measured(f, out_width, out_height) >= 1
       /\ ZeroBound =>
            /\ status = 0 /\ retval = ERR_CONSTRAINTS
            /\ ~WriterOpened /\ outRows = << >>
       /\ ~pBounds.isNull =>
            ((retval = ERR_CONSTRAINTS) <=>
               \E f \in BoundFields :
                 /\ pBounds[f] >= 0
                 /\ Measured(f, out_width, out_height) > pBounds[f])

C29_Witness ==
  /\ pc = "done" /\ retval = SPH_JPEG_ERR_OK
  /\ pBounds.max_long = -2 /\ pBounds.max_short = -2
  /\ pBounds.max_width = -2 /\ pBounds.max_height = -2
  /\ pBounds.max_pixels = -2
  /\ Count(calls, "check_bounds") = 1
  /\ outRows = << <<35>> >>

(* A bounds structure is passed that bounds the pixel count and nothing    *)
(* else.                                                                   *)
OnlyPixelsBound ==
  /\ ~pBounds.isNull /\ pBounds.max_pixels >= 0
  /\ \A f \in BoundFields \ {"max_pixels"} : pBounds[f] < 0

(* C30: for output dimensions in 1..32000 the pixel count is at most       *)
(* 1,024,000,000, below 2^31, so its computation does not overflow, and    *)
(* the decision against max_pixels is the one the exact product gives,     *)
(* for every max_pixels up to the largest int32_t.                         *)
C30_PixelCountExact ==
  /\ SPH_JPEG_MAXDIM * SPH_JPEG_MAXDIM = 1024000000
  /\ SPH_JPEG_MAXDIM * SPH_JPEG_MAXDIM < INT32_MAX
  /\ (OpensOK /\ pc \notin {"open", "plan"}) =>
       /\ out_width \in 1..SPH_JPEG_MAXDIM
       /\ out_height \in 1..SPH_JPEG_MAXDIM
       /\ out_width <= INT32_MAX \div out_height
       /\ out_width * out_height <= 1024000000
       /\ OnlyPixelsBound =>
            /\ pBounds.max_pixels <= INT32_MAX
            /\ (retval = ERR_CONSTRAINTS)
                 <=> (out_width * out_height > pBounds.max_pixels)
            /\ (status = 0 /\ ~WriterOpened)
                 <=> (out_width * out_height > pBounds.max_pixels)

C30_Witness ==
  /\ pc = "copy" /\ sval = 1
  /\ out_width = 32000 /\ out_height = 32000
  /\ pBounds.max_pixels = 1024000000
  /\ retval = SPH_JPEG_ERR_OK /\ status = 1
  /\ WriterOpened /\ writer.width = 32000 /\ writer.height = 32000

(* A dimension of the stream's header is outside 1..32000. *)
DimOutOfRange == W0 \notin 1..32000 \/ H0 \notin 1..32000

(* C31: sph_jpeg_reader_new yields OK (dimensions in 1..32000, 1 or 3      *)
(* channels), LIBJ (libjpeg raised an error), IDIM (a dimension out of     *)
(* range) or CCNT (another channel count); IDIM takes precedence over CCNT *)
(* when both apply; READ arises only in a sph_jpeg_reader_get that asked   *)
(* libjpeg for a scanline.                                                 *)
C31_OpenStatuses ==
  /\ [][ (pc = "r_new") =>
           (/\ pr' = 1
            /\ reader'.status \in {SPH_JPEG_ERR_OK, SPH_JPEG_ERR_LIBJ,
                                   SPH_JPEG_ERR_IDIM, SPH_JPEG_ERR_CCNT}
            /\ (reader'.status = SPH_JPEG_ERR_LIBJ) <=> jpeg.libj_err
            /\ (reader'.status = SPH_JPEG_ERR_IDIM)
                 <=> (~jpeg.libj_err /\ DimOutOfRange)
            /\ (reader'.status = SPH_JPEG_ERR_CCNT)
                 <=> (~jpeg.libj_err /\ ~DimOutOfRange /\ CH0 \notin {1, 3})
            /\ (reader'.status = SPH_JPEG_ERR_OK)
                 <=> (~jpeg.libj_err /\ ~DimOutOfRange /\ CH0 \in {1, 3})) ]_vars
  /\ [][ (reader'.status = SPH_JPEG_ERR_READ
            /\ reader.status # SPH_JPEG_ERR_READ) =>
           (/\ reader.status = SPH_JPEG_ERR_OK /\ pr = 1
            /\ Count(calls', "reader_get") = Count(calls, "reader_get") + 1
            /\ Count(calls', "jpeg_read_scanlines")
                 = Count(calls, "jpeg_read_scanlines") + 1) ]_vars
  /\ [] ((pr = 1 /\ reader.status \in OpenErrors) =>
           Count(calls, "jpeg_read_scanlines") = 0)

(* C32: the reader finishes decompression at most once, in the height-th   *)
(* sph_jpeg_reader_get when the reader is OK and that call succeeds, and   *)
(* nowhere else: not in an error state, not before height scanlines were   *)
(* read, not in sph_jpeg_reader_free.                                      *)
C32_ReaderFinishOnce ==
  /\ [] (reader.finished \in {0, 1})
  /\ [] ((reader.finished = 1) <=>
           (/\ reader.height >= 1
            /\ reader.status = SPH_JPEG_ERR_OK
            /\ reader.readcount = reader.height
            /\ Len(inRows) = reader.height))
  /\ [] (reader.status # SPH_JPEG_ERR_OK => reader.finished = 0)
  /\ [][ (reader'.finished # reader.finished) =>
           (/\ reader.finished = 0 /\ reader'.finished = 1
            /\ pc = "r_use" /\ pc' = "r_use"
            /\ Count(calls', "reader_get") = Count(calls, "reader_get") + 1
            /\ Count(calls', "reader_get") = reader.height
            /\ reader.status = SPH_JPEG_ERR_OK
            /\ status' = 1
            /\ reader'.status = SPH_JPEG_ERR_OK) ]_vars
  /\ [][ (pc = "r_use" /\ reader.status = SPH_JPEG_ERR_OK
            /\ reader.readcount = reader.height - 1
            /\ Count(calls', "reader_get") = Count(calls, "reader_get") + 1
            /\ pc' = "r_use" /\ status' = 1) => reader'.finished = 1 ]_vars

C32_Witness ==
  /\ pc = "done" /\ reader.finished = 1 /\ reader.freed = 1
  /\ reader.height = 3 /\ reader.readcount = 3
  /\ Count(calls, "reader_get") = 3 /\ Len(inRows) = 3

(* C33: with sval in 1..16 jpegshrink never aborts on a parameter or state *)
(* check, whatever the reader does: where a stage or the writer is about   *)
(* to be called its checks pass, no scanline is pushed to a writer that    *)
(* has its height, and no scanline is requested from a reader that has     *)
(* delivered its height.                                                   *)
C33_NoFault ==
  /\ sval \in 1..JPEGSHRINK_MAXSHRINK
  /\ pc # "fault"
  /\ Count(calls, "abort") = 0
  /\ pc = "wopen" => ~writer_new_faults(out_width, out_height, chcount)
  /\ pc = "copy" =>
       /\ ~reader_get_faults(reader)
       /\ ~writer_put_faults(writer)
  /\ pc = "scale" =>
       /\ read_due(y, in_height) => ~reader_get_faults(reader)
       /\ ~padscan_faults(in_width, pad_count, chcount)
       /\ ~mixscan_faults(out_width, sval, chcount)
       /\ ~avgblit_faults(out_samples, sval)
       /\ ~writer_put_faults(writer)
  /\ writer.written <= writer.height
  /\ reader.readcount <= reader.height
  /\ Count(calls, "writer_put") <= writer.height
  /\ Count(calls, "reader_get") <= reader.height

C33_Witness ==
  /\ pc = "done" /\ sval = 3 /\ W0 = 5 /\ H0 = 4 /\ CH0 = 3
  /\ retval = SPH_JPEG_ERR_OK /\ jpeg.fail_at = 0
  /\ reader.readcount = 4 /\ writer.written = 2 /\ writer.height = 2
  /\ Count(calls, "abort") = 0

(* Every sample of the input image equals v. *)
Uniform(v) ==
  \A r \in 1..Len(jpeg.rows) : \A i \in 1..Len(jpeg.rows[r]) :
    jpeg.rows[r][i] = v

(* C34: the clamp of the averaging stage never changes a value: every      *)
(* accumulated sum divided by s * s is in 0..255 and is the sample that is *)
(* stored; every output sample lies between the least and the greatest     *)
(* input sample of its window, so an image whose samples all equal v       *)
(* yields output samples that all equal v.                                 *)
C34_ClampIdle ==
  /\ \A i \in 1..Len(pAcc) :
       /\ pAcc[i] \div (sval * sval) \in 0..255
       /\ avg_sample(pAcc[i], sval) = pAcc[i] \div (sval * sval)
  /\ (GeneralSetUp /\ status = 1 /\ y >= 1 /\ y % sval = 0) =>
       \A i \in 1..out_samples :
         /\ pOutScan[i] = pAcc[i] \div (sval * sval)
         /\ outRows[Len(outRows)][i] = pOutScan[i]
  /\ sval >= 2 =>
       \A oy \in 1..Len(outRows) : \A i \in 1..Len(outRows[oy]) :
         LET w == WindowSamples(sval, oy - 1, (i - 1) \div CH0, (i - 1) % CH0)
         IN /\ outRows[oy][i] \in 0..255
            /\ \E k \in 1..Len(w) : w[k] <= outRows[oy][i]
            /\ \E k \in 1..Len(w) : w[k] >= outRows[oy][i]
  /\ \A v \in {0, 3, 10, 255} :
       (OpensOK /\ jpeg.rows # << >> /\ Uniform(v)) =>
         \A oy \in 1..Len(outRows) : \A i \in 1..Len(outRows[oy]) :
           outRows[oy][i] = v

C34_Witness ==
  /\ pc = "done" /\ retval = SPH_JPEG_ERR_OK /\ sval = 3
  /\ W0 = 5 /\ H0 = 4 /\ CH0 = 1 /\ Uniform(255)
  /\ outRows = << <<255, 255>>, <<255, 255>> >>

(* The calls of the release-and-return step. *)
ReleaseCalls == {"reader_status", "reader_free", "writer_free"}

(* C35: when every reader and writer call returns, jpegshrink terminates:  *)
(* it reaches its release-and-return step and returns; each iteration of a *)
(* loop increases y or is the last, the copy loop stays within H and the   *)
(* general loop within out_height * s positions, and after a failure       *)
(* nothing is called but the release.                                      *)
C35_Terminates ==
  /\ <>(CallLost \/ pc = "done")
  /\ [] (pc = "done" =>
           /\ Count(calls, "reader_free") = 1
           /\ Count(calls, "writer_free") = 1
           /\ calls[Len(calls)] = "writer_free")
  /\ [] (y >= 0 /\ y <= (IF sval <= 1 THEN in_height ELSE out_height * sval)
           /\ Count(calls, "reader_new") <= 1
           /\ Count(calls, "writer_new") <= 1)
  /\ [][ (pc \in {"copy", "scale"} /\ ~CallLost') =>
           (/\ y' = y + 1 \/ (y' = y /\ status' = 0)
            /\ pc' = pc \/ pc' = "exit"
            /\ status' = 0 => pc' = "exit") ]_vars
  /\ [][ (pc \notin {"copy", "scale"}) => y' = y ]_vars
  /\ [][ (status = 0) =>
           (/\ status' = 0
            /\ pc' \in {"exit", "done"}
            /\ \A i \in (Len(calls) + 1)..Len(calls') :
                 calls'[i] \in ReleaseCalls) ]_vars

C35_Witness ==
  /\ pc = "done" /\ sval = 2 /\ H0 = 3 /\ y = 4
  /\ retval = SPH_JPEG_ERR_OK
  /\ calls[Len(calls)] = "writer_free"
(* ---------- the command line tool ---------- *)

IsDigit(c) == \E i \in 1..10 : Chr[i] = c

DigitVal(c) == (CHOOSE i \in 1..10 : Chr[i] = c) - 1

(* The string without its sign character, if it has one. *)
Unsigned(str) ==
  IF str # << >> /\ str[1] \in {"+", "-"} THEN Tail(str) ELSE str

(* An optional sign followed by one or more decimal digits. *)
WellFormed(str) ==
  /\ Unsigned(str) # << >>
  /\ \A i \in 1..Len(Unsigned(str)) : IsDigit(Unsigned(str)[i])

(* The digits from the first that is not 0. *)
Significant(ds) ==
  LET nz == {i \in 1..Len(ds) : ds[i] # "0"}
  IN IF nz = {} THEN << >>
     ELSE SubSeq(ds, CHOOSE i \in nz : \A j \in nz : i <= j, Len(ds))

(* Digit strings of the same length compared as numbers. *)
DigitsLE(a, b) ==
  \/ a = b
  \/ \E i \in 1..Len(a) :
       /\ \A j \in 1..(i - 1) : a[j] = b[j]
       /\ DigitVal(a[i]) < DigitVal(b[i])

(* The number written by the digits is at most INT32_MAX, decided on the   *)
(* digits.                                                                 *)
MagnitudeFits(ds) ==
  LET sg == Significant(ds)
  IN \/ Len(sg) < 10
     \/ /\ Len(sg) = 10
        /\ DigitsLE(sg, Decimal(<<2, 1, 4, 7, 4, 8, 3, 6, 4, 7>>))

RECURSIVE Magnitude(_)
Magnitude(ds) ==
  IF ds = << >> THEN 0
  ELSE Magnitude(SubSeq(ds, 1, Len(ds) - 1)) * 10 + DigitVal(ds[Len(ds)])

Accepted(str) == WellFormed(str) /\ MagnitudeFits(Unsigned(str))

SignedValue(str) ==
  IF str[1] = "-" THEN -Magnitude(Unsigned(str)) ELSE Magnitude(Unsigned(str))

(* The argument is a decimal number in lo..hi. *)
ArgIn(str, lo, hi) ==
  Accepted(str) /\ SignedValue(str) >= lo /\ SignedValue(str) <= hi

(* One or two parameters, a reduction value in 1..16 and, when present, a  *)
(* quality in 0..100.                                                      *)
ValidCommand ==
  /\ Len(argv) \in {2, 3}
  /\ ArgIn(argv[2], 1, 16)
  /\ Len(argv) = 3 => ArgIn(argv[3], 0, 100)

Called == Count(calls, "jpegshrink") = 1

(* C36: jpeg_reduce calls jpegshrink exactly for a command line with a     *)
(* reduction value in 1..16 and a quality in 0..100, 90 when absent, and   *)
(* passes these values; no run aborts on a parameter check; the process    *)
(* exits with 0 exactly when jpegshrink was called and returned OK, and    *)
(* with 1 otherwise, in particular for every refused command line.         *)
C36_ToolValidates ==
  /\ Called <=> (pc # "main" /\ ValidCommand)
  /\ Called =>
       /\ sval = SignedValue(argv[2])
       /\ q = (IF Len(argv) = 3 THEN SignedValue(argv[3]) ELSE 90)
       /\ sval >= 1 /\ sval <= 16
       /\ q >= 0 /\ q <= 100
  /\ pc # "fault" /\ Count(calls, "abort") = 0
  /\ pc = "exited" =>
       /\ exit_code \in {0, 1}
       /\ exit_code = 0 <=> (Called /\ retval = SPH_JPEG_ERR_OK)
  /\ (pc = "exited" /\ ~ValidCommand) => exit_code = 1
  /\ pc # "exited" => exit_code = -1

C36_Witness ==
  /\ pc = "exited"
  /\ exit_code = 0
  /\ argv = <<ProgName, Decimal(<<1, 6>>)>>
  /\ sval = 16
  /\ q = 90
  /\ Count(calls, "writer_put") = 1

(* C37: parseInt succeeds exactly on an optional sign followed by one or   *)
(* more decimal digits whose magnitude is at most INT32_MAX, and then      *)
(* stores the signed value; otherwise it returns 0 and leaves the output   *)
(* variable as it was, so that -2147483648 is refused; and after every     *)
(* prefix of the digits the accumulator is within 0..INT32_MAX.            *)
C37_ParseIntGuarded ==
  [][ (pc = "parse") =>
        (/\ status' \in {0, 1}
         /\ (status' = 1) <=> Accepted(argv[2])
         /\ (status' = 1) => (rval' = SignedValue(argv[2]))
         /\ (status' = 0) => (rval' = rval)
         /\ rval' >= -INT32_MAX /\ rval' <= INT32_MAX
         /\ \A k \in 0..Len(Unsigned(argv[2])) :
              LET r == parse_digits([status |-> 1, result |-> 0],
                                    SubSeq(Unsigned(argv[2]), 1, k))
              IN r.result >= 0 /\ r.result <= INT32_MAX) ]_vars

C37_Witness ==
  /\ pc = "parsed"
  /\ argv[2] = <<"-">> \o Decimal(<<2, 1, 4, 7, 4, 8, 3, 6, 4, 8>>)
  /\ status = 0
  /\ rval = DEFAULT_Q_VAL

====
